---- MODULE Spec2Model ----
(***************************************************************************)
(* TrackAI: the run lifecycle (LoggingService), the client Run handle, the *)
(* process-wide facade (trackai.init / log / log_system / finish) and the  *)
(* metric-series query, as state machines over the tables of the store.    *)
(*                                                                         *)
(* Abstractions: the created_at / updated_at / timestamp columns and the    *)
(* tags column of a run are not modelled (rows are created in the order    *)
(* of their ids); create_run is called without a group; texts are in       *)
(* lower case; a Python float is represented by its repr string, tagged    *)
(* with its class. The dashboards table has no writer in the repository   *)
(* and is always empty.                                                    *)
(***************************************************************************)
EXTENDS Integers, Sequences, FiniteSets, TLC

(* ---------------------------- bounds ----------------------------------- *)
\* rows the runs table may hold
MaxRuns == 2
\* rows the metrics table may hold
MaxMetrics == 3
\* Run handles constructed by one client process
MaxHandles == 2
\* log / log_system calls recorded in the history
MaxCalls == 3
\* rows written by direct calls of LoggingService.log_metrics
MaxServiceMetrics == 1
\* rows a table may hold after a create request of the HTTP API
MaxRows == 3
\* concurrent calls of LoggingService.create_run
MaxProcs == 3
\* calls of migrate_sqlite_to_duckdb on the same pair of paths
MaxMigrations == 2
\* log calls of one client process sharing the S3 object with another
MaxClientLogs == 2
\* the highest autoincrement counter at which a DELETE request is still made
MaxSeq == 3

(* ------------------------- Python values ------------------------------- *)
\* Optional[T]: None is the empty tuple, a value x is <<x>>
None == <<>>
Some(x) == <<x>>
IsNone(o) == o = <<>>
Get(o) == o[1]

\* if x: of an Optional[int] and of an Optional[str] request parameter
TruthyInt(x) == ~IsNone(x) /\ Get(x) # 0
TruthyStr(x) == ~IsNone(x) /\ Get(x) # ""

\* a Python scalar, tagged with its class
PyBool(b) == [cls |-> "bool", v |-> b]
PyInt(n) == [cls |-> "int", v |-> n]
PyFloat(r) == [cls |-> "float", v |-> r]
PyStr(s) == [cls |-> "str", v |-> s]
PyNone == [cls |-> "NoneType", v |-> "None"]
\* a value of another class, by its str() form (here the list [1])
PyList == [cls |-> "list", v |-> "[1]"]
\* a nested mapping: items is a tuple of <<key, value>> in insertion order
PyDict(items) == [cls |-> "dict", v |-> items]

\* isinstance(value, cls): bool is a subclass of int
isinstance(value, cls) ==
    \/ value.cls = cls
    \/ (cls = "int" /\ value.cls = "bool")

\* str(int) for the integers the model uses
IntStr(n) ==
    IF n \in 0..9
    THEN <<"0", "1", "2", "3", "4", "5", "6", "7", "8", "9">>[n + 1]
    ELSE "N"

\* str(value)
PyStrOf(value) ==
    CASE value.cls = "bool" -> (IF value.v THEN "True" ELSE "False")
      [] value.cls = "int" -> IntStr(value.v)
      [] OTHER -> value.v

\* json.dumps(value) of a scalar
json_dumps(value) ==
    CASE value.cls = "bool" -> (IF value.v THEN "true" ELSE "false")
      [] value.cls = "int" -> IntStr(value.v)
      [] value.cls = "float" -> value.v
      [] value.cls = "str" -> "\"" \o value.v \o "\""
      [] OTHER -> "null"

\* int(text) for the texts IntStr gives
StrInt(text) ==
    IF \E n \in 0..9 : IntStr(n) = text
    THEN CHOOSE n \in 0..9 : IntStr(n) = text
    ELSE -1

\* json.loads(text) of the encoding of a scalar: a quoted text is a str,
\* true, false and null are literals, a number with a point is a float
json_loads(text) ==
    IF SubSeq(text, 1, 1) = "\""
    THEN PyStr(SubSeq(text, 2, Len(text) - 1))
    ELSE IF text = "true" THEN PyBool(TRUE)
    ELSE IF text = "false" THEN PyBool(FALSE)
    ELSE IF text = "null" THEN PyNone
    ELSE IF \E i \in 1..Len(text) : SubSeq(text, i, i) = "."
    THEN PyFloat(text)
    ELSE PyInt(StrInt(text))

(* ------------------------------ store ---------------------------------- *)
\* the empty store: the tables and the autoincrement counters
EmptyDb ==
    [projects |-> {}, runs |-> {}, configs |-> {}, metrics |-> {},
     files |-> {}, custom_views |-> {},
     seq |-> [projects |-> 1, runs |-> 1, configs |-> 1, metrics |-> 1,
              files |-> 1, custom_views |-> 1]]

\* db.delete(run) leaving the files of the run in place
cascade_run_keeping_files(d, run_ids) ==
    [d EXCEPT !.runs = {r \in @ : r.id \notin run_ids},
              !.metrics = {m \in @ : m.run_id \notin run_ids},
              !.configs = {c \in @ : c.run_id \notin run_ids}]

\* db.delete(run) for each of run_ids: Run.metrics, Run.configs and
\* Run.files have cascade="all, delete-orphan", so the session deletes the
\* rows of the three relationships with the run
cascade_run(d, run_ids) ==
    [d EXCEPT !.runs = {r \in @ : r.id \notin run_ids},
              !.metrics = {m \in @ : m.run_id \notin run_ids},
              !.configs = {c \in @ : c.run_id \notin run_ids},
              !.files = {f \in @ : f.run_id \notin run_ids}]

\* db.delete(project): Project.runs and Project.custom_views have
\* cascade="all, delete-orphan"; each run is deleted as by db.delete(run)
cascade_project(d, project_id) ==
    LET run_ids == {r.id : r \in {x \in d.runs : x.project_id = project_id}}
        d1 == cascade_run(d, run_ids)
    IN [d1 EXCEPT !.projects = {q \in @ : q.id # project_id},
                  !.custom_views = {v \in @ : v.project_id # project_id}]

NoErr == "ok"

\* Session.commit() of pending Config rows: the flush inserts them in order
\* and UNIQUE(run_id, key) fails the whole transaction
RECURSIVE FlushConfigs(_, _)
FlushConfigs(d, pending) ==
    IF pending = <<>> THEN [db |-> d, err |-> NoErr]
    ELSE LET c == Head(pending) IN
         IF \E e \in d.configs : e.run_id = c.run_id /\ e.key = c.key
         THEN [db |-> d, err |-> "IntegrityError"]
         ELSE FlushConfigs(
                  [d EXCEPT !.configs = @ \cup {[id |-> d.seq.configs,
                                                  run_id |-> c.run_id,
                                                  key |-> c.key,
                                                  value |-> c.value]},
                            !.seq.configs = @ + 1],
                  Tail(pending))

\* st = [db, pending, err]: committed store, rows added to the session and
\* not yet flushed, and the exception raised so far
CommitConfigs(st) ==
    LET r == FlushConfigs(st.db, st.pending) IN
    IF r.err = NoErr
    THEN [db |-> r.db, pending |-> <<>>, err |-> NoErr]
    ELSE [db |-> st.db, pending |-> <<>>, err |-> r.err]

\* LoggingService._log_config
RECURSIVE log_config_items(_, _, _, _, _)
log_config(st, run_id, config, prefix) ==
    LET after == log_config_items(st, run_id, config, prefix, 1) IN
    IF after.err # NoErr THEN after ELSE CommitConfigs(after)

\* the for loop of _log_config passing no prefix down
RECURSIVE log_config_items_unprefixed(_, _, _, _, _)
log_config_items_unprefixed(st, run_id, config, prefix, i) ==
    IF i > Len(config.v) \/ st.err # NoErr THEN st
    ELSE LET key == config.v[i][1]
             value == config.v[i][2]
             next == IF isinstance(value, "dict")
                     THEN log_config(st, run_id, value, "")
                     ELSE [st EXCEPT !.pending =
                              Append(@, [run_id |-> run_id, key |-> key,
                                         value |-> json_dumps(value)])]
         IN log_config_items_unprefixed(next, run_id, config, prefix, i + 1)

\* the for loop of _log_config, from item i on
log_config_items(st, run_id, config, prefix, i) ==
    IF i > Len(config.v) \/ st.err # NoErr THEN st
    ELSE LET key == config.v[i][1]
             value == config.v[i][2]
             full_key == IF prefix # "" THEN prefix \o key ELSE key
             next == IF isinstance(value, "dict")
                     THEN log_config(st, run_id, value, full_key \o "/")
                     ELSE [st EXCEPT !.pending =
                              Append(@, [run_id |-> run_id, key |-> full_key,
                                         value |-> json_dumps(value)])]
         IN log_config_items(next, run_id, config, prefix, i + 1)

\* LoggingService.get_or_create_project
get_or_create_project(d, project_name) ==
    LET found == {p \in d.projects : p.name = project_name} IN
    IF found # {}
    THEN [db |-> d, project |-> CHOOSE p \in found : TRUE]
    ELSE LET p == [id |-> d.seq.projects, name |-> project_name] IN
         [db |-> [d EXCEPT !.projects = @ \cup {p}, !.seq.projects = @ + 1],
          project |-> p]

\* f"run-{run_count}"
AutoRunName_count(run_count) == "run-" \o IntStr(run_count)

\* f"run-{run_count + 1}"
AutoRunName(run_count) == "run-" \o IntStr(run_count + 1)

\* resume_existing without the resume == "never" check
resume_existing_ignoring_never(d, existing_run, resume) ==
    [db |-> [d EXCEPT !.runs = (@ \ {existing_run}) \cup
                 {[existing_run EXCEPT !.state = "running"]}],
     err |-> NoErr, id |-> existing_run.id]

\* resume_existing without the assignment state = "running"
resume_existing_keeping_state(d, existing_run, resume) ==
    IF resume = "never"
    THEN [db |-> d, err |-> "ValueError", id |-> 0]
    ELSE [db |-> d, err |-> NoErr, id |-> existing_run.id]

\* create_run, lines 91-102: a run with the identity exists
resume_existing(d, existing_run, resume) ==
    IF resume = "never"
    THEN [db |-> d, err |-> "ValueError", id |-> 0]
    ELSE [db |-> [d EXCEPT !.runs = (@ \ {existing_run}) \cup
                      {[existing_run EXCEPT !.state = "running"]}],
          err |-> NoErr, id |-> existing_run.id]

\* create_new without the resume == "must" check and without the config
create_new_ignoring_must(d, project, run_name, config, resume) ==
    LET run == [id |-> d.seq.runs, project_id |-> project.id,
                run_id |-> run_name, name |-> Some(run_name),
                group_name |-> None, state |-> "running"]
    IN [db |-> [d EXCEPT !.runs = @ \cup {run}, !.seq.runs = @ + 1],
        err |-> NoErr, id |-> run.id]

\* create_run, lines 103-126: no run with the identity exists
create_new(d, project, run_name, config, resume) ==
    IF resume = "must"
    THEN [db |-> d, err |-> "ValueError", id |-> 0]
    ELSE LET run == [id |-> d.seq.runs, project_id |-> project.id,
                     run_id |-> run_name, name |-> Some(run_name),
                     group_name |-> None, state |-> "running"]
             d2 == [d EXCEPT !.runs = @ \cup {run}, !.seq.runs = @ + 1]
             lc == IF IsNone(config) \/ Get(config) = PyDict(<<>>)
                   THEN [db |-> d2, pending |-> <<>>, err |-> NoErr]
                   ELSE log_config([db |-> d2, pending |-> <<>>,
                                    err |-> NoErr],
                                   run.id, Get(config), "")
         IN [db |-> lc.db, err |-> lc.err, id |-> run.id]

\* LoggingService.create_run: the store after the call, the exception it
\* raised (NoErr when it returned) and the surrogate id it returned
create_run(d, project_name, run_name_arg, config, resume) ==
    LET gp == get_or_create_project(d, project_name)
        d1 == gp.db
        project == gp.project
        run_count == Cardinality({r \in d1.runs : r.project_id = project.id})
        run_name == IF IsNone(run_name_arg) \/ Get(run_name_arg) = ""
                    THEN AutoRunName(run_count)
                    ELSE Get(run_name_arg)
        existing == {r \in d1.runs :
                        r.project_id = project.id /\ r.run_id = run_name}
    IN
    IF existing # {}
    THEN resume_existing(d1, CHOOSE r \in existing : TRUE, resume)
    ELSE create_new(d1, project, run_name, config, resume)

\* MetricRow testing int before bool
MetricRow_int_first(id, run_id, metric_path, value, step) ==
    LET base == [id |-> id, run_id |-> run_id, attribute_path |-> metric_path,
                 attribute_type |-> "string", step |-> step,
                 float_value |-> None, int_value |-> None,
                 string_value |-> None, bool_value |-> None]
    IN
    IF isinstance(value, "int")
    THEN [base EXCEPT !.attribute_type = "int", !.int_value = Some(value.v)]
    ELSE IF isinstance(value, "bool")
    THEN [base EXCEPT !.attribute_type = "bool", !.bool_value = Some(value.v)]
    ELSE IF isinstance(value, "float")
    THEN [base EXCEPT !.attribute_type = "float",
                      !.float_value = Some(value.v)]
    ELSE [base EXCEPT !.string_value = Some(PyStrOf(value))]

\* the Metric row log_metrics builds for one item: the isinstance chain
MetricRow(id, run_id, metric_path, value, step) ==
    LET base == [id |-> id, run_id |-> run_id, attribute_path |-> metric_path,
                 attribute_type |-> "string", step |-> step,
                 float_value |-> None, int_value |-> None,
                 string_value |-> None, bool_value |-> None]
    IN
    IF isinstance(value, "bool")
    THEN [base EXCEPT !.attribute_type = "bool", !.bool_value = Some(value.v)]
    ELSE IF isinstance(value, "int")
    THEN [base EXCEPT !.attribute_type = "int", !.int_value = Some(value.v)]
    ELSE IF isinstance(value, "float")
    THEN [base EXCEPT !.attribute_type = "float",
                      !.float_value = Some(value.v)]
    ELSE IF isinstance(value, "str")
    THEN [base EXCEPT !.string_value = Some(value.v)]
    ELSE [base EXCEPT !.string_value = Some(PyStrOf(value))]

\* log_metrics replacing the row of the same run, path and step, if any
RECURSIVE log_metrics_upsert(_, _, _, _)
log_metrics_upsert(d, run_id, metrics, step) ==
    IF metrics = <<>> THEN d
    ELSE LET item == Head(metrics)
             row == MetricRow(d.seq.metrics, run_id, item[1], item[2], step)
             old == {m \in d.metrics : m.run_id = run_id /\ m.step = step
                                        /\ m.attribute_path = item[1]}
         IN log_metrics_upsert([d EXCEPT !.metrics = (@ \ old) \cup {row},
                                         !.seq.metrics = @ + 1],
                               run_id, Tail(metrics), step)

\* LoggingService.log_metrics: one row per item of the mapping, in order
RECURSIVE log_metrics(_, _, _, _)
log_metrics(d, run_id, metrics, step) ==
    IF metrics = <<>> THEN d
    ELSE LET item == Head(metrics)
             row == MetricRow(d.seq.metrics, run_id, item[1], item[2], step)
         IN log_metrics([d EXCEPT !.metrics = @ \cup {row},
                                  !.seq.metrics = @ + 1],
                        run_id, Tail(metrics), step)

\* finish_run completing only a run that is running
finish_run_only_running(d, run_id) ==
    [d EXCEPT !.runs = {IF r.id = run_id /\ r.state = "running"
                        THEN [r EXCEPT !.state = "completed"] ELSE r :
                        r \in d.runs}]

\* LoggingService.finish_run
finish_run(d, run_id) ==
    LET found == {r \in d.runs : r.id = run_id} IN
    IF found # {}
    THEN LET run == CHOOSE r \in found : TRUE IN
         [d EXCEPT !.runs = (@ \ {run}) \cup
                              {[run EXCEPT !.state = "completed"]}]
    ELSE d

(* ------------------------------ state ---------------------------------- *)
VARIABLES
    \* the store (local storage mode)
    db,
    \* the Run handles constructed so far: run_id, _step_counter, and
    \* whether the handle is inside a with block
    handles,
    \* trackai._current_run: 0 is None, otherwise an index into handles
    current_run,
    \* the last call: its name, its arguments, the exception it raised, the
    \* handle it acted on and the surrogate id it returned
    last,
    \* history: the Run.log and Run.log_system calls made so far, each with
    \* its handle, the run of the handle, its mapping and its step argument
    calls,
    \* the response of the last call when it was a query
    resp,
    \* config.database.storage_type of the client process: "local" or "s3"
    storage_type,
    \* the object s3://bucket/key: None, or the store uploaded last
    s3_object,
    \* the files tempfile.mkdtemp() made, in order: whether the file still
    \* exists and the store it holds (the file the engine is bound to holds db)
    tmp,
    \* the file _SessionLocal's engine is bound to: 0 while _SessionLocal is
    \* None or the storage is local, otherwise an index into tmp
    engine,
    \* the outcome of the download and of the upload the last call attempted
    sync,
    \* concurrent LoggingService.create_run calls, one session each
    procs,
    \* the files migrate_sqlite_to_duckdb works on and what it returned
    fs

\* the state of the remote (S3) storage mode
s3vars == <<storage_type, s3_object, tmp, engine, sync>>

vars == <<db, handles, current_run, last, calls, resp, s3vars, procs, fs>>

NoResp == [status |-> 0, data |-> <<>>, has_more |-> FALSE]

\* no download and no upload attempted
NoSync == [download |-> "none", upload |-> "none"]

\* no create_run call in flight
NoProcs == <<>>

\* no migration under way
NoFiles == [result |-> "none"]

Call(op, args, err, h, ret) ==
    [op |-> op, args |-> args, err |-> err, h |-> h, ret |-> ret]

Init ==
    /\ db = EmptyDb
    /\ handles = <<>>
    /\ current_run = 0
    /\ last = Call("start", <<>>, NoErr, 0, 0)
    /\ calls = <<>>
    /\ resp = NoResp
    /\ storage_type = "local"
    /\ s3_object = None
    /\ tmp = <<>>
    /\ engine = 0
    /\ sync = NoSync
    /\ procs = NoProcs
    /\ fs = NoFiles

\* the client process configured with storage_type "s3" and no object in
\* the bucket yet
InitS3 ==
    /\ db = EmptyDb
    /\ handles = <<>>
    /\ current_run = 0
    /\ last = Call("start", <<>>, NoErr, 0, 0)
    /\ calls = <<>>
    /\ resp = NoResp
    /\ storage_type = "s3"
    /\ s3_object = None
    /\ tmp = <<>>
    /\ engine = 0
    /\ sync = NoSync
    /\ procs = NoProcs
    /\ fs = NoFiles

(* --------------------------- client: Run ------------------------------- *)
\* what sync_from_s3 can do in Run.__init__: nothing in local mode; in S3
\* mode the object is fetched or is not there, or the request fails
DownloadOutcomes ==
    IF storage_type # "s3" THEN {"none"}
    ELSE (IF IsNone(s3_object) THEN {"404"} ELSE {"ok"}) \cup {"ClientError"}

\* the store file i holds once the store the engine is bound to is d
FileStore(i, d) == IF i = engine THEN d ELSE tmp[i].store

\* Run.__init__: in S3 mode a temp file is made, the download is tried and
\* any failure of it swallowed, init_db creates the tables in the file, and
\* the session comes from the engine _SessionLocal was first bound to; then
\* create_run. Gives the store the session works on after create_run, the
\* temp files, the engine, the exception raised and the handle constructed
\* when none was
Run_init(download, project, name, config, resume) ==
    LET s3 == storage_type = "s3"
        file == [exists |-> TRUE,
                 store |-> IF download = "ok" THEN Get(s3_object) ELSE EmptyDb]
        tmp1 == IF s3 THEN Append(tmp, file) ELSE tmp
        engine1 == IF s3 /\ engine = 0 THEN Len(tmp1) ELSE engine
        d == IF s3 /\ engine = 0 THEN file.store ELSE db
        r == create_run(d, project, name, config, resume)
    IN [db |-> r.db, tmp |-> tmp1, engine |-> engine1, err |-> r.err,
        id |-> r.id,
        handle |-> [run_id |-> r.id, step_counter |-> 0, in_scope |-> FALSE,
                    temp_db_path |-> IF s3 THEN Len(tmp1) ELSE 0]]

\* Run.log advancing _step_counter on every call
Run_log_advancing_always(op, h, metrics, step) ==
    LET hd == handles[h]
        stored == IF IsNone(step) THEN Some(hd.step_counter) ELSE step
    IN
    /\ Cardinality(db.metrics) + Len(metrics) <= MaxMetrics
    /\ Len(calls) < MaxCalls
    /\ handles' = [handles EXCEPT ![h].step_counter = @ + 1]
    /\ db' = log_metrics(db, hd.run_id, metrics, stored)
    /\ calls' = Append(calls, [h |-> h, run_id |-> hd.run_id,
                               metrics |-> metrics, step |-> step,
                               sys |-> FALSE])
    /\ last' = Call(op, <<metrics, step>>, NoErr, h, 0)
    /\ resp' = NoResp
    /\ UNCHANGED <<current_run, s3vars, procs, fs>>

\* Run.log, called as op (directly or through the facade)
Run_log(op, h, metrics, step) ==
    LET hd == handles[h]
        omitted == IsNone(step)
        stored == IF omitted THEN Some(hd.step_counter) ELSE step
    IN
    /\ Cardinality(db.metrics) + Len(metrics) <= MaxMetrics
    /\ Len(calls) < MaxCalls
    /\ handles' = [handles EXCEPT ![h].step_counter =
                      IF omitted THEN @ + 1 ELSE @]
    /\ db' = log_metrics(db, hd.run_id, metrics, stored)
    /\ calls' = Append(calls, [h |-> h, run_id |-> hd.run_id,
                               metrics |-> metrics, step |-> step,
                               sys |-> FALSE])
    /\ last' = Call(op, <<metrics, step>>, NoErr, h, 0)
    /\ resp' = NoResp
    /\ UNCHANGED <<current_run, s3vars, procs, fs>>

\* Run.log_system passing the step counter as Run.log does
Run_log_system_with_counter(op, h, metrics) ==
    LET hd == handles[h] IN
    /\ Cardinality(db.metrics) + Len(metrics) <= MaxMetrics
    /\ Len(calls) < MaxCalls
    /\ db' = log_metrics(db, hd.run_id, metrics, Some(hd.step_counter))
    /\ calls' = Append(calls, [h |-> h, run_id |-> hd.run_id,
                               metrics |-> metrics, step |-> None,
                               sys |-> TRUE])
    /\ last' = Call(op, <<metrics>>, NoErr, h, 0)
    /\ resp' = NoResp
    /\ UNCHANGED <<handles, current_run, s3vars, procs, fs>>

\* Run.log_system
Run_log_system(op, h, metrics) ==
    LET hd == handles[h] IN
    /\ Cardinality(db.metrics) + Len(metrics) <= MaxMetrics
    /\ Len(calls) < MaxCalls
    /\ db' = log_metrics(db, hd.run_id, metrics, None)
    /\ calls' = Append(calls, [h |-> h, run_id |-> hd.run_id,
                               metrics |-> metrics, step |-> None,
                               sys |-> TRUE])
    /\ last' = Call(op, <<metrics>>, NoErr, h, 0)
    /\ resp' = NoResp
    /\ UNCHANGED <<handles, current_run, s3vars, procs, fs>>

\* what sync_to_s3 can do with temp file i
UploadOutcomes(i) ==
    IF ~tmp[i].exists THEN {"FileNotFoundError"} ELSE {"ok", "ClientError"}

\* rmtree of the directory of temp file i
rmtree(files, i) == [files EXCEPT ![i].exists = FALSE]

\* the try block of Run.finish, once the store the engine is bound to is d:
\* in S3 mode upload the temp file of the handle and, when that worked,
\* remove it; the except clause prints a warning and finish returns
sync_on_finish(h, d) ==
    LET i == handles[h].temp_db_path IN
    IF storage_type = "s3" /\ i # 0
    THEN \E upload \in UploadOutcomes(i) :
            /\ sync' = [download |-> "none", upload |-> upload]
            /\ IF upload = "ok"
               THEN /\ s3_object' = Some(FileStore(i, d))
                    /\ tmp' = rmtree(tmp, i)
               ELSE UNCHANGED <<s3_object, tmp>>
    ELSE /\ sync' = NoSync
         /\ UNCHANGED <<s3_object, tmp>>

\* Run.finish
Run_finish(op, h) ==
    /\ db' = finish_run(db, handles[h].run_id)
    /\ sync_on_finish(h, db')
    /\ last' = Call(op, <<>>, NoErr, h, 0)
    /\ resp' = NoResp
    /\ UNCHANGED <<handles, calls, storage_type, engine, procs, fs>>

\* Run.__enter__
Run_enter(h) ==
    /\ ~handles[h].in_scope
    /\ handles' = [handles EXCEPT ![h].in_scope = TRUE]
    /\ last' = Call("__enter__", <<>>, NoErr, h, 0)
    /\ resp' = NoResp
    /\ UNCHANGED <<db, current_run, calls, s3vars, procs, fs>>

\* the else branch of Run.__exit__ writing the state finish writes
mark_failed_as_completed(d, run_id) ==
    [d EXCEPT !.runs = {IF r.id = run_id
                        THEN [r EXCEPT !.state = "completed"] ELSE r :
                        r \in d.runs}]

\* the else branch of Run.__exit__: mark the run failed if its row exists
mark_failed(d, run_id) ==
    LET found == {r \in d.runs : r.id = run_id} IN
    IF found # {}
    THEN LET run == CHOOSE r \in found : TRUE IN
         [d EXCEPT !.runs = (@ \ {run}) \cup {[run EXCEPT !.state = "failed"]}]
    ELSE d

\* the cleanup of the else branch of Run.__exit__: in S3 mode the temp file
\* of the handle is removed, and no upload is made
cleanup_on_failure(h) ==
    LET i == handles[h].temp_db_path IN
    /\ sync' = NoSync
    /\ tmp' = IF storage_type = "s3" /\ i # 0 THEN rmtree(tmp, i) ELSE tmp
    /\ UNCHANGED s3_object

\* Run.__exit__; exc is whether an exception is in flight
Run_exit(h, exc) ==
    /\ handles[h].in_scope
    /\ handles' = [handles EXCEPT ![h].in_scope = FALSE]
    /\ IF ~exc
       THEN /\ db' = finish_run(db, handles[h].run_id)
            /\ sync_on_finish(h, db')
       ELSE /\ db' = mark_failed(db, handles[h].run_id)
            /\ cleanup_on_failure(h)
    /\ last' = Call("__exit__", <<exc>>, NoErr, h, 0)
    /\ resp' = NoResp
    /\ UNCHANGED <<current_run, calls, storage_type, engine, procs, fs>>

(* ----------------------------- facade ---------------------------------- *)
\* trackai.init
init(project, name, config, resume) ==
    \E download \in DownloadOutcomes :
    LET r == Run_init(download, project, name, config, resume) IN
    /\ Cardinality(r.db.runs) <= MaxRuns
    /\ r.err # NoErr \/ Len(handles) < MaxHandles
    /\ Len(r.tmp) <= MaxHandles
    /\ db' = r.db
    /\ tmp' = r.tmp
    /\ engine' = r.engine
    /\ sync' = [download |-> download, upload |-> "none"]
    /\ IF r.err = NoErr
       THEN /\ handles' = Append(handles, r.handle)
            /\ current_run' = Len(handles) + 1
            /\ last' = Call("init", <<project, name, config, resume>>, NoErr,
                            Len(handles) + 1, r.id)
       ELSE /\ UNCHANGED <<handles, current_run>>
            /\ last' = Call("init", <<project, name, config, resume>>, r.err, 0, 0)
    /\ resp' = NoResp
    /\ UNCHANGED <<calls, storage_type, s3_object, procs, fs>>

\* raise RuntimeError("No active run. ...")
NoActiveRun(op, args) ==
    /\ last' = Call(op, args, "RuntimeError", 0, 0)
    /\ resp' = NoResp
    /\ UNCHANGED <<db, handles, current_run, calls, s3vars, procs, fs>>

\* trackai.log returning silently when no run is active
log_without_guard(metrics, step) ==
    IF current_run = 0
    THEN /\ last' = Call("log", <<metrics, step>>, NoErr, 0, 0)
         /\ resp' = NoResp
         /\ UNCHANGED <<db, handles, current_run, calls, s3vars, procs, fs>>
    ELSE Run_log("log", current_run, metrics, step)

\* trackai.log
log(metrics, step) ==
    IF current_run = 0
    THEN NoActiveRun("log", <<metrics, step>>)
    ELSE Run_log("log", current_run, metrics, step)

\* trackai.log_system
log_system(metrics) ==
    IF current_run = 0
    THEN NoActiveRun("log_system", <<metrics>>)
    ELSE Run_log_system("log_system", current_run, metrics)

\* trackai.finish raising when no run is active, as trackai.log does
finish_raising ==
    IF current_run # 0
    THEN /\ Run_finish("finish", current_run)
         /\ current_run' = 0
    ELSE NoActiveRun("finish", <<>>)

\* trackai.finish
finish ==
    IF current_run # 0
    THEN /\ Run_finish("finish", current_run)
         /\ current_run' = 0
    ELSE /\ last' = Call("finish", <<>>, NoErr, 0, 0)
         /\ resp' = NoResp
         /\ UNCHANGED <<db, handles, current_run, calls, s3vars, procs, fs>>

(* ------------------- direct service and HTTP calls --------------------- *)
\* a call of LoggingService.create_run
service_create_run(project, name, config, resume) ==
    LET r == create_run(db, project, name, config, resume) IN
    /\ Cardinality(r.db.runs) <= MaxRuns
    /\ db' = r.db
    /\ last' = Call("create_run", <<project, name, config, resume>>, r.err, 0, r.id)
    /\ resp' = NoResp
    /\ UNCHANGED <<handles, current_run, calls, s3vars, procs, fs>>

\* a call of LoggingService.log_metrics
service_log_metrics(run_id, metrics, step) ==
    /\ Cardinality(db.metrics) + Len(metrics) <= MaxServiceMetrics
    /\ db' = log_metrics(db, run_id, metrics, step)
    /\ last' = Call("log_metrics", <<run_id, metrics, step>>, NoErr, 0, 0)
    /\ resp' = NoResp
    /\ UNCHANGED <<handles, current_run, calls, s3vars, procs, fs>>

\* a call of LoggingService.finish_run
service_finish_run(run_id) ==
    /\ db' = finish_run(db, run_id)
    /\ last' = Call("finish_run", <<run_id>>, NoErr, 0, 0)
    /\ resp' = NoResp
    /\ UNCHANGED <<handles, current_run, calls, s3vars, procs, fs>>

\* PATCH /runs/{run_id}/state
update_run_state(run_id, state) ==
    LET found == {r \in db.runs : r.id = run_id} IN
    /\ IF found = {}
       THEN /\ last' = Call("update_run_state", <<run_id, state>>, "404", 0, 0)
            /\ UNCHANGED db
       ELSE LET run == CHOOSE r \in found : TRUE IN
            /\ db' = [db EXCEPT !.runs = (@ \ {run}) \cup
                                          {[run EXCEPT !.state = state]}]
            /\ last' = Call("update_run_state", <<run_id, state>>, NoErr, 0, 0)
    /\ resp' = NoResp
    /\ UNCHANGED <<handles, current_run, calls, s3vars, procs, fs>>

\* f"run-{uuid.uuid4().hex[:8]}": a name no run has
UuidRunName(d) == "run-u" \o IntStr(d.seq.runs)

\* POST /mcp/bulk_log: the store after the request, the exception caught
\* (NoErr when success is reported) and the surrogate id of the run. Every
\* step commits on its own; the except clause rolls back what is pending
bulk_log_request(d, project_name, run_id, name, metrics, step, config) ==
    LET found == {p \in d.projects : p.name = project_name}
        project == IF found # {} THEN CHOOSE p \in found : TRUE
                   ELSE [id |-> d.seq.projects, name |-> project_name]
        d1 == IF found # {} THEN d
              ELSE [d EXCEPT !.projects = @ \cup {project},
                             !.seq.projects = @ + 1]
        existing == IF TruthyStr(run_id)
                    THEN {r \in d1.runs : r.project_id = project.id
                                            /\ r.run_id = Get(run_id)}
                    ELSE {}
        run_id_str == IF TruthyStr(run_id) THEN Get(run_id)
                      ELSE UuidRunName(d1)
        run == IF existing # {} THEN CHOOSE r \in existing : TRUE
               ELSE [id |-> d1.seq.runs, project_id |-> project.id,
                     run_id |-> run_id_str,
                     name |-> IF TruthyStr(name) THEN name
                              ELSE Some(run_id_str),
                     group_name |-> None, state |-> "running"]
        d2 == IF existing # {} THEN d1
              ELSE [d1 EXCEPT !.runs = @ \cup {run}, !.seq.runs = @ + 1]
        d3 == log_metrics(d2, run.id, metrics, step)
        pending == IF IsNone(config) THEN <<>>
                   ELSE [i \in 1..Len(Get(config).v) |->
                            [run_id |-> run.id, key |-> Get(config).v[i][1],
                             value |-> json_dumps(Get(config).v[i][2])]]
        flushed == FlushConfigs(d3, pending)
    IN IF flushed.err = NoErr
       THEN [db |-> flushed.db, err |-> NoErr, id |-> run.id]
       ELSE [db |-> d3, err |-> flushed.err, id |-> run.id]

\* POST /mcp/bulk_log
bulk_log(project_name, run_id, name, metrics, step, config) ==
    LET r == bulk_log_request(db, project_name, run_id, name, metrics, step,
                              config)
    IN
    /\ Cardinality(r.db.runs) <= MaxRows
    /\ Cardinality(r.db.metrics) <= MaxRows
    /\ db' = r.db
    /\ last' = Call("bulk_log",
                    <<project_name, run_id, name, metrics, step, config>>,
                    r.err, 0, r.id)
    /\ resp' = NoResp
    /\ UNCHANGED <<handles, current_run, calls, s3vars, procs, fs>>

\* POST /runs: the row is inserted as given; the tables of the store have
\* UNIQUE(project_id, run_id) and no foreign key
post_run(project_id, run_id, name, group_name, state) ==
    /\ Cardinality(db.runs) < MaxRows
    /\ IF \E r \in db.runs : r.project_id = project_id /\ r.run_id = run_id
       THEN /\ last' = Call("post_run",
                            <<project_id, run_id, name, group_name, state>>,
                            "IntegrityError", 0, 0)
            /\ UNCHANGED db
       ELSE /\ db' = [db EXCEPT
                        !.runs = @ \cup {[id |-> db.seq.runs,
                                          project_id |-> project_id,
                                          run_id |-> run_id, name |-> name,
                                          group_name |-> group_name,
                                          state |-> state]},
                        !.seq.runs = @ + 1]
            /\ last' = Call("post_run",
                            <<project_id, run_id, name, group_name, state>>,
                            NoErr, 0, db.seq.runs)
    /\ resp' = NoResp
    /\ UNCHANGED <<handles, current_run, calls, s3vars, procs, fs>>

\* DELETE requests are made while no autoincrement counter is above MaxSeq
Deletable == \A t \in DOMAIN db.seq : db.seq[t] <= MaxSeq

\* DELETE /projects/{project_id}
delete_project(project_id) ==
    /\ Deletable
    /\ IF ~\E q \in db.projects : q.id = project_id
       THEN /\ last' = Call("delete_project", <<project_id>>, "404", 0, 0)
            /\ UNCHANGED db
       ELSE /\ db' = cascade_project(db, project_id)
            /\ last' = Call("delete_project", <<project_id>>, NoErr, 0, 0)
    /\ resp' = NoResp
    /\ UNCHANGED <<handles, current_run, calls, s3vars, procs, fs>>

\* DELETE /runs/{run_id}
delete_run(run_id) ==
    /\ Deletable
    /\ IF ~\E r \in db.runs : r.id = run_id
       THEN /\ last' = Call("delete_run", <<run_id>>, "404", 0, 0)
            /\ UNCHANGED db
       ELSE /\ db' = cascade_run(db, {run_id})
            /\ last' = Call("delete_run", <<run_id>>, NoErr, 0, 0)
    /\ resp' = NoResp
    /\ UNCHANGED <<handles, current_run, calls, s3vars, procs, fs>>

\* POST /projects/{project_id}/views
create_custom_view(project_id, name) ==
    /\ Cardinality(db.custom_views) < MaxRows
    /\ IF ~\E q \in db.projects : q.id = project_id
       THEN /\ last' = Call("create_custom_view", <<project_id, name>>, "404",
                            0, 0)
            /\ UNCHANGED db
       ELSE IF \E v \in db.custom_views :
                  v.project_id = project_id /\ v.name = name
       THEN /\ last' = Call("create_custom_view", <<project_id, name>>, "400",
                            0, 0)
            /\ UNCHANGED db
       ELSE /\ db' = [db EXCEPT
                        !.custom_views = @ \cup {[id |-> db.seq.custom_views,
                                                  project_id |-> project_id,
                                                  name |-> name]},
                        !.seq.custom_views = @ + 1]
            /\ last' = Call("create_custom_view", <<project_id, name>>, NoErr,
                            0, db.seq.custom_views)
    /\ resp' = NoResp
    /\ UNCHANGED <<handles, current_run, calls, s3vars, procs, fs>>

\* scripts/import_exports.py, import_file_metadata for a project of the
\* store whose files directory holds one run directory, run_id, with one
\* file of file_type: a File row is added when the project has the run
import_file_metadata(project_id, run_id, file_type) ==
    /\ \E q \in db.projects : q.id = project_id
    /\ Cardinality(db.files) < MaxRows
    /\ LET found == {r \in db.runs :
                        r.project_id = project_id /\ r.run_id = run_id}
       IN IF found = {}
          THEN UNCHANGED db
          ELSE db' = [db EXCEPT
                        !.files = @ \cup
                            {[id |-> db.seq.files,
                              run_id |-> (CHOOSE r \in found : TRUE).id,
                              file_type |-> file_type]},
                        !.seq.files = @ + 1]
    /\ last' = Call("import_file_metadata", <<project_id, run_id, file_type>>,
                    NoErr, 0, 0)
    /\ resp' = NoResp
    /\ UNCHANGED <<handles, current_run, calls, s3vars, procs, fs>>

(* ------------------ concurrent create_run calls ------------------------ *)
\* Each call runs in its own session. A session reads from the snapshot of
\* the transaction it is in (begun by its first statement after a commit)
\* and its commit inserts into the committed store, where the UNIQUE
\* constraints of the tables are checked.

\* INSERT INTO runs, committed, with no UNIQUE(project_id, run_id)
insert_run_unchecked(d, project_id, run_name) ==
    [db |-> [d EXCEPT !.runs = @ \cup {[id |-> d.seq.runs,
                                        project_id |-> project_id,
                                        run_id |-> run_name,
                                        name |-> Some(run_name),
                                        group_name |-> None,
                                        state |-> "running"]},
                      !.seq.runs = @ + 1],
     err |-> NoErr, id |-> d.seq.runs]

\* INSERT INTO runs, committed: UNIQUE(project_id, run_id)
insert_run(d, project_id, run_name) ==
    IF \E r \in d.runs : r.project_id = project_id /\ r.run_id = run_name
    THEN [db |-> d, err |-> "IntegrityError", id |-> 0]
    ELSE [db |-> [d EXCEPT !.runs = @ \cup {[id |-> d.seq.runs,
                                             project_id |-> project_id,
                                             run_id |-> run_name,
                                             name |-> Some(run_name),
                                             group_name |-> None,
                                             state |-> "running"]},
                           !.seq.runs = @ + 1],
          err |-> NoErr, id |-> d.seq.runs]

\* INSERT INTO projects, committed: name VARCHAR UNIQUE
insert_project(d, project_name) ==
    IF \E q \in d.projects : q.name = project_name
    THEN [db |-> d, err |-> "IntegrityError", id |-> 0]
    ELSE [db |-> [d EXCEPT !.projects = @ \cup {[id |-> d.seq.projects,
                                                 name |-> project_name]},
                           !.seq.projects = @ + 1],
          err |-> NoErr, id |-> d.seq.projects]

\* a call of create_run enters: nothing is read yet
cr_begin(project_name, run_name, config, resume) ==
    /\ Len(procs) < MaxProcs
    /\ procs' = Append(procs, [pc |-> "query_project",
                               project_name |-> project_name,
                               run_name |-> run_name, config |-> config,
                               resume |-> resume, snapshot |-> None,
                               project |-> 0, run_id |-> "", run |-> 0,
                               err |-> NoErr])
    /\ UNCHANGED <<db, handles, current_run, last, calls, resp, s3vars, fs>>

\* the call of process i has ended with err
cr_return(i, err, id) ==
    Call("create_run", <<procs[i].project_name, procs[i].run_name,
                         procs[i].config, procs[i].resume>>, err, i, id)

\* get_or_create_project: the query for the project begins a transaction
cr_query_project(i) ==
    /\ procs[i].pc = "query_project"
    /\ LET found == {q \in db.projects : q.name = procs[i].project_name} IN
       procs' = [procs EXCEPT
          ![i].snapshot = Some(db),
          ![i].project = IF found = {} THEN 0
                         ELSE (CHOOSE q \in found : TRUE).id,
          ![i].pc = IF found = {} THEN "insert_project" ELSE "query_run"]
    /\ UNCHANGED <<db, handles, current_run, last, calls, resp, s3vars, fs>>

\* get_or_create_project: add(project), commit()
cr_insert_project(i) ==
    /\ procs[i].pc = "insert_project"
    /\ LET r == insert_project(db, procs[i].project_name) IN
       /\ db' = r.db
       /\ IF r.err = NoErr
          THEN /\ procs' = [procs EXCEPT ![i].project = r.id,
                                         ![i].pc = "refresh_project"]
               /\ UNCHANGED last
          ELSE /\ procs' = [procs EXCEPT ![i].err = r.err, ![i].pc = "failed"]
               /\ last' = cr_return(i, r.err, 0)
    /\ UNCHANGED <<handles, current_run, calls, resp, s3vars, fs>>

\* get_or_create_project: refresh(project) begins the next transaction
cr_refresh_project(i) ==
    /\ procs[i].pc = "refresh_project"
    /\ procs' = [procs EXCEPT ![i].snapshot = Some(db), ![i].pc = "query_run"]
    /\ UNCHANGED <<db, handles, current_run, last, calls, resp, s3vars, fs>>

\* create_run, lines 77-108: the run name, the query for the run and the
\* resume checks, read in the transaction of the session
cr_query_run(i) ==
    /\ procs[i].pc = "query_run"
    /\ LET d == Get(procs[i].snapshot)
           run_count == Cardinality({r \in d.runs :
                                       r.project_id = procs[i].project})
           run_name == IF IsNone(procs[i].run_name)
                          \/ Get(procs[i].run_name) = ""
                       THEN AutoRunName(run_count)
                       ELSE Get(procs[i].run_name)
           existing == {r \in d.runs : /\ r.project_id = procs[i].project
                                       /\ r.run_id = run_name}
           err == IF \/ (existing # {} /\ procs[i].resume = "never")
                     \/ (existing = {} /\ procs[i].resume = "must")
                  THEN "ValueError" ELSE NoErr
       IN /\ procs' = [procs EXCEPT
                ![i].run_id = run_name,
                ![i].run = IF existing = {} THEN 0
                           ELSE (CHOOSE r \in existing : TRUE).id,
                ![i].err = err,
                ![i].pc = IF err # NoErr THEN "failed"
                          ELSE IF existing # {} THEN "update_run"
                          ELSE "insert_run"]
          /\ IF err # NoErr THEN last' = cr_return(i, err, 0)
             ELSE UNCHANGED last
    /\ UNCHANGED <<db, handles, current_run, calls, resp, s3vars, fs>>

\* create_run, lines 97-102: the UPDATE of the run found and commit(). The
\* row may be gone, and when the store has changed since the transaction
\* began the engine may report a conflict
cr_update_run(i) ==
    /\ procs[i].pc = "update_run"
    /\ LET found == {r \in db.runs : r.id = procs[i].run} IN
       \E err \in IF found = {} THEN {"StaleDataError"}
                  ELSE IF db # Get(procs[i].snapshot)
                  THEN {NoErr, "TransactionException"}
                  ELSE {NoErr} :
          /\ db' = IF err = NoErr
                   THEN [db EXCEPT !.runs = (@ \ found) \cup
                            {[r EXCEPT !.state = "running"] : r \in found}]
                   ELSE db
          /\ procs' = [procs EXCEPT
                          ![i].err = err,
                          ![i].pc = IF err = NoErr THEN "done" ELSE "failed"]
          /\ last' = cr_return(i, err, IF err = NoErr THEN procs[i].run ELSE 0)
    /\ UNCHANGED <<handles, current_run, calls, resp, s3vars, fs>>

\* create_run, lines 110-120: add(run), commit()
cr_insert_run(i) ==
    /\ procs[i].pc = "insert_run"
    /\ LET r == insert_run(db, procs[i].project, procs[i].run_id)
           truthy == ~IsNone(procs[i].config)
                     /\ Get(procs[i].config) # PyDict(<<>>)
       IN /\ db' = r.db
          /\ procs' = [procs EXCEPT
                ![i].run = r.id, ![i].err = r.err,
                ![i].pc = IF r.err # NoErr THEN "failed"
                          ELSE IF truthy THEN "log_config" ELSE "done"]
          /\ IF r.err # NoErr \/ ~truthy
             THEN last' = cr_return(i, r.err, r.id)
             ELSE UNCHANGED last
    /\ UNCHANGED <<handles, current_run, calls, resp, s3vars, fs>>

\* create_run, lines 122-124: _log_config and its commit
cr_log_config(i) ==
    /\ procs[i].pc = "log_config"
    /\ LET lc == log_config([db |-> db, pending |-> <<>>, err |-> NoErr],
                            procs[i].run, Get(procs[i].config), "")
       IN /\ db' = lc.db
          /\ procs' = [procs EXCEPT
                ![i].err = lc.err,
                ![i].pc = IF lc.err = NoErr THEN "done" ELSE "failed"]
          /\ last' = cr_return(i, lc.err, procs[i].run)
    /\ UNCHANGED <<handles, current_run, calls, resp, s3vars, fs>>

(* ------------------ client processes sharing S3 ----------------------- *)
\* Each process has its own temp file, engine and Run handle, and makes one
\* run; procs[i].store is the store in its temp file. seen and upload_no
\* record the order of the transfers: the processes whose upload had been
\* made when this one fetched the object, and the rank of its own upload.

\* the temp file after a download that is ignored
downloaded_store_empty(download) == EmptyDb

\* the temp file after Run.__init__: the object when it was fetched, else a
\* file with the empty tables init_db creates
downloaded_store(download) ==
    IF download = "ok" THEN Get(s3_object) ELSE EmptyDb

\* the processes that have uploaded
Uploaded == {j \in DOMAIN procs : procs[j].upload_no > 0}

\* Run.__init__ in process i
client_init(i) ==
    /\ procs[i].pc = "new"
    /\ \E download \in (IF IsNone(s3_object) THEN {"404"} ELSE {"ok"})
                        \cup {"ClientError"} :
          LET r == create_run(downloaded_store(download), "p", procs[i].name,
                              None, "never")
          IN /\ procs' = [procs EXCEPT
                   ![i].pc = IF r.err = NoErr THEN "running" ELSE "failed",
                   ![i].store = r.db,
                   ![i].run = r.id,
                   ![i].download = download,
                   ![i].seen = IF download = "ok" THEN Uploaded ELSE {}]
             /\ last' = Call("client_init", <<i>>, r.err, 0, r.id)
    /\ UNCHANGED <<db, handles, current_run, calls, resp, s3vars, fs>>

\* Run.log in process i
client_log(i) ==
    /\ procs[i].pc = "running"
    /\ procs[i].step_counter < MaxClientLogs
    /\ procs' = [procs EXCEPT
          ![i].store = log_metrics(@, procs[i].run,
                                   << <<"loss", PyFloat("0.9")>> >>,
                                   Some(procs[i].step_counter)),
          ![i].step_counter = @ + 1]
    /\ last' = Call("client_log", <<i>>, NoErr, 0, 0)
    /\ UNCHANGED <<db, handles, current_run, calls, resp, s3vars, fs>>

\* Run.finish in process i: the run is completed and the temp file uploaded
\* over the object, unless the upload fails
client_finish(i) ==
    /\ procs[i].pc = "running"
    /\ \E upload \in {"ok", "ClientError"} :
          LET store == finish_run(procs[i].store, procs[i].run) IN
          /\ procs' = [procs EXCEPT
                ![i].pc = "done",
                ![i].store = store,
                ![i].upload = upload,
                ![i].upload_no = IF upload = "ok"
                                 THEN Cardinality(Uploaded) + 1 ELSE 0]
          /\ s3_object' = IF upload = "ok" THEN Some(store) ELSE s3_object
    /\ last' = Call("client_finish", <<i>>, NoErr, 0, 0)
    /\ UNCHANGED <<db, handles, current_run, calls, resp, storage_type, tmp,
                   engine, sync, fs>>

(* ----------------------------- migration ------------------------------- *)
\* A store file is None when the path does not exist, else Some(tables),
\* tables mapping each table name to the sequence of its rows; a row is its
\* primary key.

\* the tables in the order they are copied
MigratedTables ==
    <<"projects", "runs", "configs", "metrics", "files", "custom_views",
      "dashboards">>

TableNames == {MigratedTables[i] : i \in DOMAIN MigratedTables}

EmptyTables == [t \in TableNames |-> <<>>]

\* the primary keys of the rows of a table
Keys(rows) == {rows[i] : i \in DOMAIN rows}

\* _create_duckdb_schema: connecting creates the file, and every table is
\* created if it does not exist
create_duckdb_schema(dest) == IF IsNone(dest) THEN Some(EmptyTables) ELSE dest

\* _copy_table_data with a destination table that has no primary key
copy_table_data_unchecked(source, dest, table_name) ==
    LET rows == source[table_name] IN
    IF rows = <<>> THEN [dest |-> dest, err |-> NoErr]
    ELSE [dest |-> [dest EXCEPT ![table_name] = @ \o rows], err |-> NoErr]

\* _copy_table_data: all rows of the table are inserted in batches in one
\* transaction; a primary key already in the destination fails the insert,
\* the transaction is rolled back and the exception raised again
copy_table_data(source, dest, table_name) ==
    LET rows == source[table_name] IN
    IF rows = <<>> THEN [dest |-> dest, err |-> NoErr]
    ELSE IF Keys(rows) \cap Keys(dest[table_name]) # {}
    THEN [dest |-> dest, err |-> "IntegrityError"]
    ELSE [dest |-> [dest EXCEPT ![table_name] = @ \o rows], err |-> NoErr]

\* the for loop over the tables, from table i on
RECURSIVE copy_tables(_, _, _)
copy_tables(source, dest, i) ==
    IF i > Len(MigratedTables) THEN [dest |-> dest, err |-> NoErr]
    ELSE LET r == copy_table_data(source, dest, MigratedTables[i]) IN
         IF r.err # NoErr THEN r ELSE copy_tables(source, r.dest, i + 1)

\* _verify_migration looking at the first table only
verify_migration_first_table(source, dest) ==
    Len(source[MigratedTables[1]]) = Len(dest[MigratedTables[1]])

\* _verify_migration: COUNT(*) of every table is compared
verify_migration(source, dest) ==
    \A i \in DOMAIN MigratedTables :
       Len(source[MigratedTables[i]]) = Len(dest[MigratedTables[i]])

\* the failure branch of the migration leaving the destination in place
rollback_keeping_destination(f) == [f EXCEPT !.result = "false"]

\* migrate_sqlite_to_duckdb, lines 219-224: verification failed
rollback(f) == [f EXCEPT !.dest = None, !.result = "false"]

\* migrate_sqlite_to_duckdb, lines 208-218: verification passed
rename_old(f) ==
    [f EXCEPT !.old = f.source, !.source = None, !.result = "true"]

\* migrate_sqlite_to_duckdb on the files f; result is what it returned, or
\* "raised"
migrate_sqlite_to_duckdb(f) ==
    IF IsNone(f.source) THEN [f EXCEPT !.result = "false"]
    ELSE LET f1 == [f EXCEPT !.backup = f.source,
                             !.dest = create_duckdb_schema(f.dest)]
             copied == copy_tables(Get(f1.source), Get(f1.dest), 1)
             f2 == [f1 EXCEPT !.dest = Some(copied.dest)]
         IN IF copied.err # NoErr THEN [f2 EXCEPT !.result = "raised"]
            ELSE IF verify_migration(Get(f2.source), Get(f2.dest))
            THEN rename_old(f2)
            ELSE rollback(f2)

\* one run of the migration; before is the files it started from
migrate ==
    /\ fs.n < MaxMigrations
    /\ LET f == migrate_sqlite_to_duckdb(fs) IN
       fs' = [f EXCEPT !.n = @ + 1,
                       !.before = [source |-> fs.source, dest |-> fs.dest]]
    /\ last' = Call("migrate", <<>>, NoErr, 0, 0)
    /\ UNCHANGED <<db, handles, current_run, calls, resp, s3vars, procs>>

\* the user puts the renamed source file back
restore_old ==
    /\ fs.n < MaxMigrations
    /\ ~IsNone(fs.old) /\ IsNone(fs.source)
    /\ fs' = [fs EXCEPT !.source = fs.old, !.old = None]
    /\ last' = Call("restore_old", <<>>, NoErr, 0, 0)
    /\ UNCHANGED <<db, handles, current_run, calls, resp, s3vars, procs>>

(* ----------------------------- queries --------------------------------- *)
\* a <= b in ORDER BY step; the engine puts NULL steps first or last
StepLeq(a, b, nulls_first) ==
    IF IsNone(a) /\ IsNone(b) THEN TRUE
    ELSE IF IsNone(a) THEN nulls_first
    ELSE IF IsNone(b) THEN ~nulls_first
    ELSE Get(a) <= Get(b)

\* the results of query.order_by(Metric.step).all(): rows of equal step come
\* in any order
OrderedByStep(rows) ==
    {s \in [1..Cardinality(rows) -> rows] :
        /\ \A i, j \in DOMAIN s : i # j => s[i] # s[j]
        /\ \E nulls_first \in BOOLEAN : \A i, j \in DOMAIN s :
              i < j => StepLeq(s[i].step, s[j].step, nulls_first)}

\* the value read from a Metric row: the first column that is not None, in
\* the order float, int, string, bool
MetricValue(m) ==
    IF ~IsNone(m.float_value) THEN PyFloat(Get(m.float_value))
    ELSE IF ~IsNone(m.int_value) THEN PyInt(Get(m.int_value))
    ELSE IF ~IsNone(m.string_value) THEN PyStr(Get(m.string_value))
    ELSE IF ~IsNone(m.bool_value) THEN PyBool(Get(m.bool_value))
    ELSE PyNone

\* the decoder of the tool endpoint testing for the type "str"
MetricValueByType_str(m) ==
    IF m.attribute_type = "float" THEN
        IF IsNone(m.float_value) THEN PyNone ELSE PyFloat(Get(m.float_value))
    ELSE IF m.attribute_type = "int" THEN
        IF IsNone(m.int_value) THEN PyNone ELSE PyInt(Get(m.int_value))
    ELSE IF m.attribute_type = "str" THEN
        IF IsNone(m.string_value) THEN PyNone ELSE PyStr(Get(m.string_value))
    ELSE IF m.attribute_type = "bool" THEN
        IF IsNone(m.bool_value) THEN PyNone ELSE PyBool(Get(m.bool_value))
    ELSE PyNone

\* the value read from a Metric row by the tool endpoint: the column
\* attribute_type names
MetricValueByType(m) ==
    IF m.attribute_type = "float" THEN
        IF IsNone(m.float_value) THEN PyNone ELSE PyFloat(Get(m.float_value))
    ELSE IF m.attribute_type = "int" THEN
        IF IsNone(m.int_value) THEN PyNone ELSE PyInt(Get(m.int_value))
    ELSE IF m.attribute_type = "string" THEN
        IF IsNone(m.string_value) THEN PyNone ELSE PyStr(Get(m.string_value))
    ELSE IF m.attribute_type = "bool" THEN
        IF IsNone(m.bool_value) THEN PyNone ELSE PyBool(Get(m.bool_value))
    ELSE PyNone

\* .limit(limit).offset(offset) of an ordered result
Page(ordered, limit, offset) ==
    SubSeq(ordered, offset + 1,
           IF offset + limit < Len(ordered) THEN offset + limit
           ELSE Len(ordered))

\* has_more true also when the page ends at the last row
has_more_inclusive(offset, limit, total) == (offset + limit) <= total

\* has_more = (offset + limit) < total
has_more(offset, limit, total) == (offset + limit) < total

\* GET /metrics/runs/{run_id}/metric/{metric_path}
get_metric_values(run_id, metric_path, limit, offset, step_min, step_max) ==
    /\ IF ~\E r \in db.runs : r.id = run_id
       THEN /\ resp' = [status |-> 404, data |-> <<>>, has_more |-> FALSE]
            /\ last' = Call("get_metric_values",
                            <<run_id, metric_path, limit, offset, step_min,
                              step_max>>, "404", 0, 0)
       ELSE LET query ==
                    {m \in db.metrics :
                        /\ m.run_id = run_id
                        /\ m.attribute_path = metric_path
                        /\ IsNone(step_min) \/
                              (~IsNone(m.step) /\ Get(m.step) >= Get(step_min))
                        /\ IsNone(step_max) \/
                              (~IsNone(m.step) /\ Get(m.step) <= Get(step_max))}
                total == Cardinality(query)
            IN \E ordered \in OrderedByStep(query) :
                 LET metrics == Page(ordered, limit, offset) IN
                 /\ resp' = [status |-> 200,
                             data |-> [i \in 1..Len(metrics) |->
                                         [step |-> metrics[i].step,
                                          value |-> MetricValue(metrics[i])]],
                             has_more |-> has_more(offset, limit, total)]
                 /\ last' = Call("get_metric_values",
                                 <<run_id, metric_path, limit, offset,
                                   step_min, step_max>>, NoErr, 0, 0)
    /\ UNCHANGED <<db, handles, current_run, calls, s3vars, procs, fs>>

\* POST /mcp/get_metric_values
mcp_get_metric_values(run_id, metric_path, limit) ==
    /\ LET query == {m \in db.metrics : /\ m.run_id = run_id
                                        /\ m.attribute_path = metric_path}
       IN \E ordered \in OrderedByStep(query) :
            LET metrics == Page(ordered, limit, 0) IN
            resp' = [status |-> 200,
                     data |-> [i \in 1..Len(metrics) |->
                                 [step |-> metrics[i].step,
                                  value |-> MetricValueByType(metrics[i]),
                                  type |-> metrics[i].attribute_type]],
                     has_more |-> FALSE]
    /\ last' = Call("mcp_get_metric_values", <<run_id, metric_path, limit>>,
                    NoErr, 0, 0)
    /\ UNCHANGED <<db, handles, current_run, calls, s3vars, procs, fs>>

\* text ILIKE '%search%'
ilike(text, search) ==
    \E i \in 1..(Len(text) - Len(search) + 1) :
        SubSeq(text, i, i + Len(search) - 1) = search

\* the rows in ORDER BY created_at: runs are created in the order of their ids
OrderedByCreation(rows, sort_order) ==
    CHOOSE s \in [1..Cardinality(rows) -> rows] :
        \A i, j \in DOMAIN s :
            i < j => IF sort_order = "desc" THEN s[i].id > s[j].id
                     ELSE s[i].id < s[j].id

\* GET /runs, sorted by created_at
list_runs(project_id, group, state, search, limit, offset, sort_order) ==
    LET query ==
            {r \in db.runs :
                /\ TruthyInt(project_id) => r.project_id = Get(project_id)
                /\ TruthyStr(group) => r.group_name = group
                /\ TruthyStr(state) => r.state = Get(state)
                /\ TruthyStr(search) =>
                      \/ ilike(r.run_id, Get(search))
                      \/ ~IsNone(r.name) /\ ilike(Get(r.name), Get(search))}
        total == Cardinality(query)
        runs == Page(OrderedByCreation(query, sort_order), limit, offset)
    IN
    /\ resp' = [status |-> 200, data |-> runs, total |-> total,
                has_more |-> has_more(offset, limit, total)]
    /\ last' = Call("list_runs",
                    <<project_id, group, state, search, limit, offset,
                      sort_order>>, NoErr, 0, 0)
    /\ UNCHANGED <<db, handles, current_run, calls, s3vars, procs, fs>>

\* {c.key: json.loads(c.value) if c.value else None for c in configs}, as
\* the set of its items
config_dict(d, run_id) ==
    {<<c.key, IF c.value # "" THEN json_loads(c.value) ELSE PyNone>> :
        c \in {e \in d.configs : e.run_id = run_id}}

\* the results of query.all() with no ORDER BY: the engine scans the table
\* in insertion order, which is the order of the ids
InInsertionOrder(rows) ==
    CHOOSE s \in [1..Cardinality(rows) -> rows] :
        \A i, j \in DOMAIN s : i < j => s[i].id < s[j].id

\* metrics_dict keeping the first row of each path instead of the last
summary_metrics_earliest(d, run_id) ==
    LET ordered == InInsertionOrder({m \in d.metrics :
                                        m.run_id = run_id /\ IsNone(m.step)})
    IN {<<ordered[i].attribute_path, MetricValue(ordered[i])>> :
           i \in {k \in DOMAIN ordered :
                    \A j \in DOMAIN ordered :
                       ordered[j].attribute_path = ordered[k].attribute_path
                       => j >= k}}

\* metrics_dict of get_run_summary, as the set of its items: the rows of the
\* run with step NULL are assigned in result order, so the last row of a
\* path is the one that stays
summary_metrics(d, run_id) ==
    LET ordered == InInsertionOrder({m \in d.metrics :
                                        m.run_id = run_id /\ IsNone(m.step)})
    IN {<<ordered[i].attribute_path, MetricValue(ordered[i])>> :
           i \in {k \in DOMAIN ordered :
                    \A j \in DOMAIN ordered :
                       ordered[j].attribute_path = ordered[k].attribute_path
                       => j <= k}}

\* GET /runs/{run_id}/summary
get_run_summary(run_id) ==
    /\ IF ~\E r \in db.runs : r.id = run_id
       THEN /\ resp' = [status |-> 404, data |-> <<>>, has_more |-> FALSE]
            /\ last' = Call("get_run_summary", <<run_id>>, "404", 0, 0)
       ELSE LET run == CHOOSE r \in db.runs : r.id = run_id IN
            /\ resp' = [status |-> 200,
                        data |-> [run |-> run,
                                  metrics |-> summary_metrics(db, run_id),
                                  config |-> config_dict(db, run_id)],
                        has_more |-> FALSE]
            /\ last' = Call("get_run_summary", <<run_id>>, NoErr, 0, 0)
    /\ UNCHANGED <<db, handles, current_run, calls, s3vars, procs, fs>>

\* GET /runs/{run_id}/config
get_run_config(run_id) ==
    /\ IF ~\E r \in db.runs : r.id = run_id
       THEN /\ resp' = [status |-> 404, data |-> <<>>, has_more |-> FALSE]
            /\ last' = Call("get_run_config", <<run_id>>, "404", 0, 0)
       ELSE /\ resp' = [status |-> 200, data |-> config_dict(db, run_id),
                        has_more |-> FALSE]
            /\ last' = Call("get_run_config", <<run_id>>, NoErr, 0, 0)
    /\ UNCHANGED <<db, handles, current_run, calls, s3vars, procs, fs>>

(* ----------------------------- inputs ---------------------------------- *)
ProjectArgs == {"p", "q"}
NameArgs == {None, Some("r1")}
ResumeArgs == {"never", "allow", "must"}
NestedConfig == PyDict(<< <<"model", PyDict(<< <<"lr", PyFloat("0.1")>> >>)>> >>)
ConfigArgs == {None, Some(NestedConfig)}
OneMetric == << <<"loss", PyFloat("0.9")>> >>
Handles == 1..Len(handles)
\* surrogate ids a caller may pass: those allocated so far and the next one
RunIds == 1..db.seq.runs

\* the run lifecycle service, called directly
NextService ==
    \/ \E project \in ProjectArgs, name \in NameArgs, config \in ConfigArgs,
          resume \in ResumeArgs :
          service_create_run(project, name, config, resume)
    \/ \E run_id \in {r.id : r \in db.runs} :
          service_log_metrics(run_id, OneMetric, Some(0))
    \/ \E run_id \in RunIds : service_finish_run(run_id)
    \/ \E run_id \in RunIds : update_run_state(run_id, "failed")

SpecService == Init /\ [][NextService]_vars

LogMetricsArgs ==
    { <<>>,
      << <<"loss", PyFloat("0.9")>> >>,
      << <<"gpu", PyFloat("0.7")>>, <<"acc", PyBool(TRUE)>> >> }
LogStepArgs == {None, Some(1)}
SystemMetricsArgs == { << <<"gpu", PyFloat("0.8")>> >> }
\* the default limit of get_metric_values
DefaultLimit == 1000

\* limit, offset, step_min and step_max of the series queries made
SeriesQueryArgs ==
    { <<DefaultLimit, 0, None, None>>, <<1, 1, None, None>>,
      <<DefaultLimit, 0, Some(1), None>>, <<DefaultLimit, 0, None, Some(0)>> }

\* logging through Run handles and reading the metric series back
NextLog ==
    \/ init("p", Some("r1"), None, "allow")
    \/ \E h \in Handles, metrics \in LogMetricsArgs, step \in LogStepArgs :
          Run_log("Run.log", h, metrics, step)
    \/ \E h \in Handles, metrics \in SystemMetricsArgs :
          Run_log_system("Run.log_system", h, metrics)
    \/ \E run_id \in RunIds, metric_path \in {"loss", "gpu"},
          q \in SeriesQueryArgs :
          get_metric_values(run_id, metric_path, q[1], q[2], q[3], q[4])

SpecLog == Init /\ [][NextLog]_vars

\* a config with leaves of every scalar class, nested two levels, and an
\* empty nested mapping
DeepConfig ==
    PyDict(<< <<"model", PyDict(<< <<"lr", PyFloat("0.1")>>,
                                   <<"opt", PyDict(<< <<"name", PyStr("adam")>>
                                                   >>)>> >>)>>,
              <<"seed", PyInt(3)>>,
              <<"empty", PyDict(<<>>)>>,
              <<"flag", PyBool(TRUE)>>,
              <<"note", PyNone>> >>)
\* a config whose only entry is an empty nested mapping
HollowConfig == PyDict(<< <<"empty", PyDict(<<>>)>> >>)
\* the config each run name is created with
ConfigOfName(name) ==
    CASE name = "r1" -> Some(DeepConfig)
      [] name = "r2" -> Some(NestedConfig)
      [] name = "r3" -> Some(HollowConfig)
      [] OTHER -> None

\* creating runs with a config and reading the config back
NextConfig ==
    \/ \E project \in ProjectArgs, name \in {"r1", "r2", "r3", "r4"},
          resume \in {"allow", "must"} :
          service_create_run(project, Some(name), ConfigOfName(name), resume)
    \/ \E run_id \in RunIds : service_finish_run(run_id)
    \/ \E run_id \in RunIds : get_run_config(run_id)

SpecConfig == Init /\ [][NextConfig]_vars

\* limit and offset of the pages asked for
PageArgs == {<<1, 0>>, <<1, 1>>, <<2, 1>>, <<0, 2>>}
\* project_id, group, state and search of the run lists asked for; project
\* 0 and the empty text are taken as no filter
FilterArgs ==
    { <<None, None, None, None>>, <<Some(0), None, Some(""), None>>,
      <<None, Some("g"), Some("completed"), None>>,
      <<None, None, None, Some("r")>>,
      <<Some(1), None, Some("running"), Some("1")>> }

\* runs made and logged to over HTTP, and pages of runs and of a metric series
NextPage ==
    \/ \E run_id \in {Some("r1"), Some("r2")}, step \in {None, Some(1)} :
          bulk_log("p", run_id, None, OneMetric, step, None)
    \/ \E project_id \in 1..2 :
          post_run(project_id, "x1", None, Some("g"), "running")
    \/ update_run_state(1, "completed")
    \/ \E f \in FilterArgs, pg \in PageArgs :
          list_runs(f[1], f[2], f[3], f[4], pg[1], pg[2], "desc")
    \/ \E run_id \in {r.id : r \in db.runs}, pg \in PageArgs,
          step_min \in {None, Some(1)} :
          get_metric_values(run_id, "loss", pg[1], pg[2], step_min, None)

SpecPage == Init /\ [][NextPage]_vars

\* the mappings logged with and without a step before a summary is read
SummaryLogArgs ==
    { << <<"gpu", PyFloat("0.8")>> >>, << <<"gpu", PyInt(7)>> >>,
      << <<"mem", PyBool(FALSE)>>, <<"gpu", PyFloat("0.5")>> >> }

\* logging with and without a step through Run handles and reading the
\* summary of the run
NextSummary ==
    \/ \E name \in {"r1", "r2"} : init("p", Some(name), None, "allow")
    \/ \E h \in Handles : Run_log("Run.log", h, OneMetric, None)
    \/ \E h \in Handles :
          Run_log("Run.log", h, << <<"gpu", PyFloat("0.1")>> >>, Some(1))
    \/ \E h \in Handles, metrics \in SummaryLogArgs :
          Run_log_system("Run.log_system", h, metrics)
    \/ \E run_id \in RunIds : get_run_summary(run_id)

SpecSummary == Init /\ [][NextSummary]_vars

\* the source stores a migration is run on: each table empty or of two rows
SourceStores == [TableNames -> {<<>>, <<1, 2>>}]

\* the destination files: one holding the empty tables, or one row, with
\* primary key 1 or 3, in one table
DestStores ==
    {EmptyTables}
    \cup {[EmptyTables EXCEPT ![t] = <<k>>] : t \in TableNames, k \in {1, 3}}

\* the migration is run on a source file, or none, and a destination path
\* with or without a file
InitMig ==
    /\ db = EmptyDb
    /\ handles = <<>>
    /\ current_run = 0
    /\ last = Call("start", <<>>, NoErr, 0, 0)
    /\ calls = <<>>
    /\ resp = NoResp
    /\ storage_type = "local"
    /\ s3_object = None
    /\ tmp = <<>>
    /\ engine = 0
    /\ sync = NoSync
    /\ procs = NoProcs
    /\ \E source \in {None} \cup {Some(x) : x \in SourceStores},
          dest \in {None} \cup {Some(x) : x \in DestStores} :
          fs = [source |-> source, dest |-> dest, old |-> None,
                backup |-> None, result |-> "none", n |-> 0,
                before |-> [source |-> source, dest |-> dest]]

NextMig ==
    \/ migrate
    \/ restore_old

SpecMig == InitMig /\ [][NextMig]_vars

\* runs created with and without a name, some of the names being of the
\* form the service makes up
NextAuto ==
    \/ \E project \in ProjectArgs,
          name \in {None, Some("run-1"), Some("run-2")},
          resume \in ResumeArgs :
          service_create_run(project, name, None, resume)
    \/ \E run_id \in RunIds : service_finish_run(run_id)

SpecAuto == Init /\ [][NextAuto]_vars

\* a client process in S3 mode: runs are created, logged to and finished
NextS3 ==
    \/ \E name \in {Some("r1"), Some("r2")} : init("p", name, None, "allow")
    \/ log(OneMetric, None)
    \/ finish
    \/ \E h \in Handles : Run_finish("Run.finish", h) /\ UNCHANGED current_run
    \/ \E h \in Handles : Run_enter(h)
    \/ \E h \in Handles, exc \in BOOLEAN : Run_exit(h, exc)

SpecS3 == InitS3 /\ [][NextS3]_vars

\* a config whose flattened keys collide
CollidingConfig ==
    PyDict(<< <<"a/b", PyInt(1)>>,
              <<"a", PyDict(<< <<"b", PyInt(2)>> >>)>> >>)
\* a config of one key
FlatConfig == PyDict(<< <<"lr", PyInt(1)>> >>)

\* the arguments of the concurrent create_run calls
ConcArgs ==
    { <<"p", Some("r1"), Some(FlatConfig), "allow">>,
      <<"p", Some("r1"), None, "never">>,
      <<"p", None, Some(CollidingConfig), "allow">> }

\* create_run calls of several sessions, interleaved statement by
\* statement, and bulk_log requests with a config
NextConc ==
    \/ \E a \in ConcArgs : cr_begin(a[1], a[2], a[3], a[4])
    \/ \E i \in DOMAIN procs : cr_query_project(i)
    \/ \E i \in DOMAIN procs : cr_insert_project(i)
    \/ \E i \in DOMAIN procs : cr_refresh_project(i)
    \/ \E i \in DOMAIN procs : cr_query_run(i)
    \/ \E i \in DOMAIN procs : cr_update_run(i)
    \/ \E i \in DOMAIN procs : cr_insert_run(i)
    \/ \E i \in DOMAIN procs : cr_log_config(i)
    \/ bulk_log("p", Some("r1"), None, OneMetric, None, Some(FlatConfig))

SpecConc == Init /\ [][NextConc]_vars

\* client and HTTP writes followed by DELETE requests
NextDelete ==
    \/ service_create_run("p", Some("r1"), Some(NestedConfig), "allow")
    \/ \E project \in {"p", "q"} :
          bulk_log(project, Some("r1"), None, OneMetric, None, None)
    \/ post_run(2, "x1", None, None, "running")
    \/ create_custom_view(1, "v")
    \/ import_file_metadata(1, "r1", "models")
    \/ \E project_id \in 1..2 : delete_project(project_id)
    \/ \E run_id \in 1..2 : delete_run(run_id)

SpecDelete == Init /\ [][NextDelete]_vars

\* the values logged to see how log_metrics stores each class
EncodeValues ==
    {PyBool(TRUE), PyBool(FALSE), PyInt(0), PyInt(1), PyFloat("0.5"),
     PyStr("a"), PyNone, PyList}
EncodeArgs == {<< <<"m", v>> >> : v \in EncodeValues}

\* logging values of every class through a Run handle
NextEncode ==
    \/ init("p", Some("r1"), None, "allow")
    \/ \E h \in Handles, metrics \in EncodeArgs, step \in LogStepArgs :
          Run_log("Run.log", h, metrics, step)
    \/ \E h \in Handles :
          Run_log_system("Run.log_system", h, << <<"m", PyBool(FALSE)>> >>)

SpecEncode == Init /\ [][NextEncode]_vars

\* the values of the four metric types, those Python takes as false among
\* them
DecodeValues ==
    {PyBool(TRUE), PyBool(FALSE), PyInt(0), PyInt(1), PyFloat("0.0"),
     PyFloat("0.5"), PyStr("a"), PyStr("")}

\* logging values of the four types and reading them through both endpoints
NextDecode ==
    \/ init("p", Some("r1"), None, "allow")
    \/ \E h \in Handles, v \in DecodeValues :
          Run_log("Run.log", h, << <<"m", v>> >>, Some(1))
    \/ get_metric_values(1, "m", DefaultLimit, 0, None, None)
    \/ \E limit \in {1, DefaultLimit} : mcp_get_metric_values(1, "m", limit)

SpecDecode == Init /\ [][NextDecode]_vars

\* a client process that has not made its Run yet
NewClient(name) ==
    [pc |-> "new", name |-> Some(name), store |-> EmptyDb, run |-> 0,
     step_counter |-> 0, download |-> "none", upload |-> "none",
     seen |-> {}, upload_no |-> 0]

\* two client processes configured with the same bucket and key; the bucket
\* holds no object, or one with the empty tables
InitRemote ==
    /\ db = EmptyDb
    /\ handles = <<>>
    /\ current_run = 0
    /\ last = Call("start", <<>>, NoErr, 0, 0)
    /\ calls = <<>>
    /\ resp = NoResp
    /\ storage_type = "s3"
    /\ s3_object \in {None, Some(EmptyDb)}
    /\ tmp = <<>>
    /\ engine = 0
    /\ sync = NoSync
    /\ procs = <<NewClient("r1"), NewClient("r2")>>
    /\ fs = NoFiles

NextRemote ==
    \/ \E i \in DOMAIN procs : client_init(i)
    \/ \E i \in DOMAIN procs : client_log(i)
    \/ \E i \in DOMAIN procs : client_finish(i)

SpecRemote == InitRemote /\ [][NextRemote]_vars

\* bulk_log requests with and without a config, for named and unnamed runs
NextBulk ==
    \/ \E project \in ProjectArgs, run_id \in {None, Some("r1")},
          config \in {None, Some(FlatConfig)} :
          bulk_log(project, run_id, None, OneMetric, Some(1), config)
    \/ \E run_id \in RunIds : service_finish_run(run_id)
    \/ \E run_id \in RunIds : get_run_config(run_id)

SpecBulk == Init /\ [][NextBulk]_vars

\* create_run calls some of which fail after a commit
NextAtomic ==
    \/ \E project \in ProjectArgs, resume \in ResumeArgs,
          config \in {None, Some(FlatConfig), Some(CollidingConfig)} :
          service_create_run(project, Some("r1"), config, resume)
    \/ \E run_id \in RunIds : service_finish_run(run_id)
    \/ \E run_id \in RunIds : get_run_config(run_id)

SpecAtomic == Init /\ [][NextAtomic]_vars

\* the client: the facade and the scope of a Run handle
Next ==
    \/ \E name \in {Some("r1"), Some("r2")}, resume \in {"never", "allow"} :
          init("p", name, None, resume)
    \/ log(OneMetric, Some(0))
    \/ log_system(OneMetric)
    \/ finish
    \/ \E h \in Handles : Run_finish("Run.finish", h) /\ UNCHANGED current_run
    \/ \E h \in Handles : Run_enter(h)
    \/ \E h \in Handles, exc \in BOOLEAN : Run_exit(h, exc)

Spec == Init /\ [][Next]_vars

\* the facade and the run scope only: no call of Run.finish on a handle
NextFacade ==
    \/ \E name \in {Some("r1"), Some("r2")}, resume \in {"never", "allow"} :
          init("p", name, None, resume)
    \/ log(OneMetric, Some(0))
    \/ log_system(OneMetric)
    \/ finish
    \/ \E h \in Handles : Run_enter(h)
    \/ \E h \in Handles, exc \in BOOLEAN : Run_exit(h, exc)

SpecFacade == Init /\ [][NextFacade]_vars

(* ------------------------------ claims --------------------------------- *)
\* the rows of table t that belong to run id
RowsOf(t, id) == {x \in t : x.run_id = id}

\* the identity a create_run request names in store d: the project name and
\* the given run name, or run-(N+1) when the run name is omitted
RequestedName(d, project, name) ==
    IF ~IsNone(name) THEN Get(name)
    ELSE "run-" \o IntStr(1 + Cardinality({r \in d.runs : \E p \in d.projects :
                              p.name = project /\ r.project_id = p.id}))

\* the runs of store d with the identity (project, run_name)
WithIdentity(d, project, run_name) ==
    {r \in d.runs : r.run_id = run_name /\
        \E p \in d.projects : p.name = project /\ r.project_id = p.id}

\* the step just taken is a call of op
Called(op) == last'.op = op

\* C1: create_run with resume="never" for an identity that exists raises
\* ValueError, and the runs, configs and metrics tables are left as they were.
C1_NeverOnExistingFails ==
    [][(Called("create_run") /\ last'.args[4] = "never"
        /\ WithIdentity(db, last'.args[1],
                        RequestedName(db, last'.args[1], last'.args[2])) # {})
       => /\ last'.err = "ValueError"
          /\ db'.runs = db.runs
          /\ db'.configs = db.configs
          /\ db'.metrics = db.metrics]_vars

\* a "never" request was refused while the run it names holds config and
\* metric rows
C1_Witness ==
    /\ last.op = "create_run" /\ last.args[4] = "never"
    /\ last.err = "ValueError"
    /\ \E r \in WithIdentity(db, last.args[1], "r1") :
          /\ last.args[2] = Some("r1")
          /\ RowsOf(db.configs, r.id) # {}
          /\ RowsOf(db.metrics, r.id) # {}

\* C2: create_run with resume="allow" or "must" for an identity that exists
\* returns that run's surrogate id, sets its state to running whatever it
\* was, adds no run row and writes no config row even when a config is given.
C2_ResumeReactivates ==
    [][(Called("create_run") /\ last'.args[4] \in {"allow", "must"})
       => \A e \in WithIdentity(db, last'.args[1],
                      RequestedName(db, last'.args[1], last'.args[2])) :
            /\ last'.err = NoErr
            /\ last'.ret = e.id
            /\ db'.runs = (db.runs \ {e}) \cup {[e EXCEPT !.state = "running"]}
            /\ db'.configs = db.configs]_vars

\* a run created without config was resumed with a config supplied: it is
\* running and still has no config row
C2_Witness ==
    /\ last.op = "create_run" /\ last.args[4] = "must" /\ last.err = NoErr
    /\ ~IsNone(last.args[3])
    /\ RowsOf(db.configs, last.ret) = {}
    /\ \E r \in db.runs : r.id = last.ret /\ r.state = "running"

\* C3: for an identity that does not exist, create_run with resume="must"
\* raises ValueError and adds no run row; with "never" or "allow" it adds
\* exactly one run row, with that identity and state running.
C3_AbsentIdentity ==
    [][(Called("create_run")
        /\ WithIdentity(db, last'.args[1],
                        RequestedName(db, last'.args[1], last'.args[2])) = {})
       => IF last'.args[4] = "must"
          THEN last'.err = "ValueError" /\ db'.runs = db.runs
          ELSE \E n \in db'.runs :
                 /\ n \notin db.runs
                 /\ \A r \in db.runs : r.id # n.id
                 /\ db'.runs = db.runs \cup {n}
                 /\ n.state = "running"
                 /\ n.run_id = RequestedName(db, last'.args[1], last'.args[2])
                 /\ \E p \in db'.projects :
                       p.name = last'.args[1] /\ n.project_id = p.id
                 /\ last'.ret = n.id]_vars

\* a "must" request for an absent run was refused, after runs were created
C3_Witness ==
    /\ last.op = "create_run" /\ last.args[4] = "must"
    /\ last.err = "ValueError"
    /\ WithIdentity(db, last.args[1], "r1") = {} /\ last.args[2] = Some("r1")
    /\ db.runs # {}

\* C5: finish_run sets the state of the run to completed, also when it is
\* completed already, changes nothing when no run has the id, and never raises.
C5_FinishRunIdempotent ==
    [][Called("finish_run")
       => /\ last'.err = NoErr
          /\ db'.runs = {IF r.id = last'.args[1]
                         THEN [r EXCEPT !.state = "completed"] ELSE r :
                         r \in db.runs}
          /\ db'.projects = db.projects /\ db'.configs = db.configs
          /\ db'.metrics = db.metrics]_vars

\* finish_run was called with an id no run has, while runs exist, one of
\* them completed
C5_Witness ==
    /\ last.op = "finish_run" /\ last.err = NoErr
    /\ \A r \in db.runs : r.id # last.args[1]
    /\ \E r \in db.runs : r.state = "completed"

\* C4: leaving the scope of a handle with an exception in flight sets the
\* state of its run to failed, leaving it without one sets it to completed,
\* and no other client operation makes a run failed.
C4_ScopeExit ==
    [][/\ Called("__exit__")
          => \E r \in db'.runs :
               /\ r.id = handles[last'.h].run_id
               /\ r.state = IF last'.args[1] THEN "failed" ELSE "completed"
       /\ \A r \in db'.runs :
            (r.state = "failed"
             /\ ~\E o \in db.runs : o.id = r.id /\ o.state = "failed")
            => /\ Called("__exit__") /\ last'.args[1]
               /\ handles[last'.h].run_id = r.id]_vars

\* a scope was left with an exception in flight and its run is failed
C4_Witness ==
    /\ last.op = "__exit__" /\ last.args[1]
    /\ \E r \in db.runs : r.id = handles[last.h].run_id /\ r.state = "failed"
    /\ \E r \in db.runs : r.state = "completed"

\* C8: trackai.log and trackai.log_system called while _current_run is None
\* raise RuntimeError and leave the store as it was; _current_run is None
\* initially and after every trackai.finish.
C8_LogWithoutRunFails ==
    [][/\ (current_run = 0 /\ (Called("log") \/ Called("log_system")))
          => last'.err = "RuntimeError" /\ db' = db
       /\ Called("finish") => current_run' = 0]_vars

\* log_system was refused after a run had logged metrics and been finished
C8_Witness ==
    /\ last.op = "log_system" /\ last.err = "RuntimeError"
    /\ current_run = 0
    /\ handles # <<>>
    /\ db.metrics # {}

\* C9 as claimed: trackai.finish called while _current_run is None raises.
C9_FinishWithoutRunRaises ==
    [][(current_run = 0 /\ Called("finish"))
       => last'.err = "RuntimeError"]_vars

\* C9 as amended: trackai.finish called while _current_run is None returns
\* without raising and changes neither the store nor any handle.
C9_FinishWithoutRunIsNoOp ==
    [][(current_run = 0 /\ Called("finish"))
       => /\ last'.err = NoErr
          /\ db' = db /\ handles' = handles /\ current_run' = 0]_vars

\* a second trackai.finish returned after the first had finished the run
C9_Witness ==
    /\ last.op = "finish" /\ last.h = 0 /\ last.err = NoErr
    /\ current_run = 0
    /\ \E r \in db.runs : r.state = "completed"

\* the number of Run.log calls of handle h, among the first n calls of the
\* history, that omitted step
Omitted(h, n) ==
    Cardinality({i \in 1..n :
        calls[i].h = h /\ ~calls[i].sys /\ IsNone(calls[i].step)})

\* C6: the k-th Run.log call of a handle that omits step is stored with step
\* k-1 and a call that passes a step is stored with that step; the counter
\* of every handle, new or resuming, is the number of its omitted-step calls.
C6_StepCounter ==
    [][/\ Called("Run.log")
          => LET step == last'.args[2]
                 new == db'.metrics \ db.metrics
             IN /\ db.metrics \subseteq db'.metrics
                /\ Cardinality(new) = Len(last'.args[1])
                /\ \A m \in new :
                     m.step = IF IsNone(step)
                              THEN Some(Omitted(last'.h, Len(calls)))
                              ELSE step
       /\ \A h \in 1..Len(handles') :
            handles'[h].step_counter = (Omitted(h, Len(calls)))']_vars

\* the second handle, which resumed a run the first handle had logged to
\* with a step, made its second omitted-step call
C6_Witness ==
    /\ last.op = "Run.log" /\ last.h = 2 /\ IsNone(last.args[2])
    /\ Omitted(2, Len(calls)) = 2
    /\ \E m \in db.metrics : m.step = Some(1) /\ m.run_id = handles[2].run_id
    /\ \E i \in 1..Len(calls) : calls[i].h = 1 /\ calls[i].metrics # <<>>

\* C7: Run.log_system adds one row per key of its mapping, each with step
\* None whatever the step counter is, keeps every earlier row and leaves the
\* step counter of every handle as it was.
C7_LogSystem ==
    [][Called("Run.log_system")
       => LET metrics == last'.args[1]
              new == db'.metrics \ db.metrics
          IN /\ db.metrics \subseteq db'.metrics
             /\ Cardinality(new) = Len(metrics)
             /\ \A j \in 1..Len(metrics) : \E m \in new :
                   /\ m.attribute_path = metrics[j][1]
                   /\ m.run_id = handles[last'.h].run_id
             /\ \A m \in new : IsNone(m.step)
             /\ handles' = handles]_vars

\* two log_system calls with the same key left two rows with step None, the
\* second made by a handle whose step counter is not 0
C7_Witness ==
    /\ last.op = "Run.log_system"
    /\ handles[last.h].step_counter > 0
    /\ Cardinality({m \in db.metrics : m.attribute_path = "gpu" /\ IsNone(m.step)
                        /\ m.run_id = handles[last.h].run_id}) >= 2

\* the step call i of the history is to be stored with
LoggedStep(i) ==
    IF calls[i].sys THEN None
    ELSE IF IsNone(calls[i].step)
    THEN Some(Omitted(calls[i].h, i - 1))
    ELSE calls[i].step

\* <<i, j>>: call i for run run_id whose mapping has metric_path as item j
Logged(run_id, metric_path) ==
    {x \in (1..Len(calls)) \X (1..MaxMetrics + 1) :
        /\ calls[x[1]].run_id = run_id
        /\ x[2] <= Len(calls[x[1]].metrics)
        /\ calls[x[1]].metrics[x[2]][1] = metric_path}

\* the entries of Logged whose step passes the step filters of a query
LoggedInRange(run_id, metric_path, step_min, step_max) ==
    {x \in Logged(run_id, metric_path) :
        /\ IsNone(step_min) \/ (~IsNone(LoggedStep(x[1]))
                                 /\ Get(LoggedStep(x[1])) >= Get(step_min))
        /\ IsNone(step_max) \/ (~IsNone(LoggedStep(x[1]))
                                 /\ Get(LoggedStep(x[1])) <= Get(step_max))}

\* C10: the metric series of a run and path holds exactly one (step, value)
\* entry for each log or log_system call made for the run whose mapping has
\* the path, with the step and the value of that call, the entries that have
\* a step in ascending step order; a query returns the entries of the series
\* in its step range from position offset on, at most limit of them, so the
\* whole series when called with no filter, offset 0 and the default limit.
C10_SeriesComplete ==
    (last.op = "get_metric_values" /\ last.err = NoErr)
    => LET L == LoggedInRange(last.args[1], last.args[2], last.args[5],
                              last.args[6])
           total == Cardinality(L)
           limit == last.args[3]
           offset == last.args[4]
           n == Len(resp.data)
       IN /\ resp.status = 200
          /\ \E series \in [1..total -> L] :
                /\ \A a, b \in 1..total : a # b => series[a] # series[b]
                /\ \A a, b \in 1..total :
                     (a < b /\ ~IsNone(LoggedStep(series[a][1]))
                            /\ ~IsNone(LoggedStep(series[b][1])))
                     => Get(LoggedStep(series[a][1]))
                          <= Get(LoggedStep(series[b][1]))
                /\ n = (IF total - offset < 0 THEN 0
                        ELSE IF total - offset < limit THEN total - offset
                        ELSE limit)
                /\ \A a \in 1..n :
                     /\ resp.data[a].step = LoggedStep(series[offset + a][1])
                     /\ resp.data[a].value =
                           calls[series[offset + a][1]].metrics[
                               series[offset + a][2]][2]

\* the series of a path logged three times, twice with the same step and
\* out of step order, was read back whole
C10_Witness ==
    /\ last.op = "get_metric_values" /\ last.err = NoErr
    /\ last.args[3] = DefaultLimit /\ last.args[4] = 0
    /\ IsNone(last.args[5]) /\ IsNone(last.args[6])
    /\ Len(resp.data) = 3
    /\ \E a, b \in 1..3 : a # b /\ resp.data[a] = resp.data[b]
    /\ \E i, j \in 1..Len(calls) :
          /\ i < j /\ ~calls[i].sys /\ ~calls[j].sys
          /\ calls[i].metrics # <<>> /\ calls[j].metrics # <<>>
          /\ Get(LoggedStep(i)) > Get(LoggedStep(j))

\* the value columns of Metric row m that are not NULL
Populated(m) ==
    {c \in {"float", "int", "string", "bool"} :
        ~IsNone(CASE c = "float" -> m.float_value
                  [] c = "int" -> m.int_value
                  [] c = "string" -> m.string_value
                  [] OTHER -> m.bool_value)}

\* the class a logged value falls in: its own when it is bool, int, float
\* or str (a bool is a bool, not an int), otherwise none of the four
Classified(value) ==
    CASE value.cls = "bool" -> "bool"
      [] value.cls = "int" -> "int"
      [] value.cls = "float" -> "float"
      [] value.cls = "str" -> "string"
      [] OTHER -> "other"

\* row m stores value: one column is populated, it is the column of the
\* class of the value and attribute_type names it, and it holds the value;
\* a value of another class is in the string column as its str() form
Stores(m, value) ==
    LET c == Classified(value) IN
    /\ Cardinality(Populated(m)) = 1
    /\ Populated(m) = {m.attribute_type}
    /\ m.attribute_type = IF c = "other" THEN "string" ELSE c
    /\ CASE c = "bool" -> m.bool_value = Some(value.v)
         [] c = "int" -> m.int_value = Some(value.v)
         [] c = "float" -> m.float_value = Some(value.v)
         [] c = "string" -> m.string_value = Some(value.v)
         [] OTHER -> m.string_value =
                        Some(IF value = PyNone THEN "None" ELSE "[1]")

\* C11: every row log_metrics writes has exactly one of the four value
\* columns populated, the one attribute_type names; the type is that of the
\* class of the value, a bool being stored as bool and never as int, and a
\* value of any other class is stored as its string form with type string.
C11_EncodeByType ==
    [][(Called("Run.log") \/ Called("Run.log_system"))
       => LET metrics == last'.args[1]
              new == db'.metrics \ db.metrics
          IN /\ Cardinality(new) = Len(metrics)
             /\ \A j \in 1..Len(metrics) : \E m \in new :
                   /\ m.attribute_path = metrics[j][1]
                   /\ Stores(m, metrics[j][2])]_vars

\* True, 1 and None were logged: True is in the bool column only, 1 in the
\* int column only and None is the string "None"
C11_Witness ==
    /\ \E m \in db.metrics :
          m.bool_value = Some(TRUE) /\ m.attribute_type = "bool"
          /\ IsNone(m.int_value)
    /\ \E m \in db.metrics :
          m.attribute_type = "int" /\ IsNone(m.bool_value)
    /\ \E m \in db.metrics :
          m.string_value = Some("None") /\ m.attribute_type = "string"

\* the leaves of a nested mapping: <<path of keys joined by "/", leaf>> for
\* every entry, at any depth, whose value is not a mapping
RECURSIVE Leaves(_, _)
Leaves(config, path) ==
    UNION {IF config.v[i][2].cls = "dict"
           THEN Leaves(config.v[i][2], path \o config.v[i][1] \o "/")
           ELSE {<<path \o config.v[i][1], config.v[i][2]>>} :
           i \in 1..Len(config.v)}

\* the leaves of the config the run with surrogate id was created with
LeavesOfRun(d, id) ==
    LET run == CHOOSE r \in d.runs : r.id = id
        config == ConfigOfName(run.run_id)
    IN IF IsNone(config) THEN {} ELSE Leaves(Get(config), "")

\* C12: create_run for a new run stores one Config row per leaf of the
\* nested config, with the "/"-joined path as key and the JSON text of the
\* leaf as value, and none for an empty nested mapping; reading the config
\* of a run back gives every such key with the leaf it was created with.
C12_ConfigFlattened ==
    [][/\ (Called("create_run") /\ last'.err = NoErr
           /\ ~\E r \in db.runs : r.id = last'.ret)
          => LET rows == RowsOf(db'.configs, last'.ret)
                 leaves == IF IsNone(last'.args[3]) THEN {}
                           ELSE Leaves(Get(last'.args[3]), "")
             IN /\ Cardinality(rows) = Cardinality(leaves)
                /\ {<<c.key, c.value>> : c \in rows}
                      = {<<x[1], json_dumps(x[2])>> : x \in leaves}
                /\ last'.args[3] = Some(NestedConfig)
                      => {<<c.key, c.value>> : c \in rows}
                            = {<<"model/lr", "0.1">>}
       /\ (Called("get_run_config") /\ last'.err = NoErr)
          => resp'.data = LeavesOfRun(db, last'.args[1])]_vars

\* the config of a run created with the two-level config was read back: it
\* has five entries, among them model/opt/name, and none for the empty mapping
C12_Witness ==
    /\ last.op = "get_run_config" /\ last.err = NoErr
    /\ Cardinality(resp.data) = 5
    /\ <<"model/opt/name", PyStr("adam")>> \in resp.data
    /\ <<"model/lr", PyFloat("0.1")>> \in resp.data
    /\ <<"flag", PyBool(TRUE)>> \in resp.data
    /\ <<"note", PyNone>> \in resp.data
    /\ \E r \in db.runs : r.run_id = "r3" /\ RowsOf(db.configs, r.id) = {}

\* the runs a list request with these filters is about: a filter that is
\* given (not None, not 0, not empty) must match
RunsMatching(d, project_id, group, state, search) ==
    {r \in d.runs :
        /\ (project_id \notin {None, Some(0)}) => Some(r.project_id) = project_id
        /\ (group \notin {None, Some("")}) => r.group_name = group
        /\ (state \notin {None, Some("")}) => Some(r.state) = state
        /\ (search \notin {None, Some("")}) =>
              \/ ilike(r.run_id, Get(search))
              \/ r.name # None /\ ilike(Get(r.name), Get(search))}

\* the rows of a metric series a request with this step range is about
MetricsMatching(d, run_id, metric_path, step_min, step_max) ==
    {m \in d.metrics :
        /\ m.run_id = run_id /\ m.attribute_path = metric_path
        /\ step_min # None => (m.step # None /\ Get(m.step) >= Get(step_min))
        /\ step_max # None => (m.step # None /\ Get(m.step) <= Get(step_max))}

\* C13: in the answer of the run list and of the metric series, has_more is
\* true exactly when offset + limit is less than the number of rows that
\* match the filters, whatever the filters, the offset and the limit.
C13_HasMore ==
    [][/\ Called("list_runs")
          => LET a == last'.args
                 total == Cardinality(RunsMatching(db, a[1], a[2], a[3], a[4]))
             IN /\ resp'.has_more <=> (a[6] + a[5] < total)
                /\ resp'.total = total
       /\ (Called("get_metric_values") /\ last'.err = NoErr)
          => LET a == last'.args
                 total == Cardinality(MetricsMatching(db, a[1], a[2], a[5],
                                                      a[6]))
             IN resp'.has_more <=> (a[4] + a[3] < total)]_vars

\* a page of one run that ends exactly at the last of two matching runs was
\* listed, so has_more is false, after a page with has_more true was possible
C13_Witness ==
    /\ last.op = "list_runs"
    /\ last.args[4] = Some("r") /\ last.args[5] = 1 /\ last.args[6] = 1
    /\ resp.total = 2 /\ Len(resp.data) = 1 /\ ~resp.has_more
    /\ Cardinality(db.runs) = 3

\* the calls of the history that logged metric_path for run_id with no step
LoggedWithoutStep(run_id, metric_path) ==
    {i \in 1..Len(calls) :
        /\ calls[i].run_id = run_id /\ calls[i].sys
        /\ \E j \in 1..Len(calls[i].metrics) :
              calls[i].metrics[j][1] = metric_path}

\* the value call i logged for metric_path
ValueLogged(i, metric_path) ==
    LET j == CHOOSE k \in 1..Len(calls[i].metrics) :
                 calls[i].metrics[k][1] = metric_path
    IN calls[i].metrics[j][2]

\* C14: the metrics of a run summary are exactly the paths logged for the
\* run with no step, each with the value logged last for it with no step;
\* what was logged with a step does not appear.
C14_SummaryLatest ==
    (last.op = "get_run_summary" /\ last.err = NoErr)
    => LET run_id == last.args[1]
           paths == {p \in {"gpu", "mem", "loss"} :
                        LoggedWithoutStep(run_id, p) # {}}
       IN resp.data.metrics =
            {<<p, ValueLogged(CHOOSE i \in LoggedWithoutStep(run_id, p) :
                                 \A k \in LoggedWithoutStep(run_id, p) : k <= i,
                              p)>> : p \in paths}

\* gpu was logged twice with no step and once, last of all, with a step:
\* the summary has the second step-less value, and no loss
C14_Witness ==
    /\ last.op = "get_run_summary" /\ last.err = NoErr
    /\ Len(calls) = 3
    /\ calls[1].sys /\ calls[2].sys /\ ~calls[3].sys
    /\ calls[1].run_id = last.args[1] /\ calls[2].run_id = last.args[1]
    /\ calls[3].run_id = last.args[1]
    /\ calls[1].metrics = << <<"gpu", PyFloat("0.8")>> >>
    /\ calls[2].metrics = << <<"gpu", PyInt(7)>> >>
    /\ calls[3].metrics = << <<"gpu", PyFloat("0.1")>> >>
    /\ resp.data.metrics = {<<"gpu", PyInt(7)>>}

\* the rows of table t that belong to one of run_ids
RowsOfRuns(d, t, run_ids) == {x \in d[t] : x.run_id \in run_ids}

\* C15: a successful DELETE of a project removes the project, its runs and
\* views and the metrics, configs and files of those runs, and nothing else;
\* a successful DELETE of a run removes the run and its metrics, configs and
\* files, and nothing else.
C15_CascadeDelete ==
    [][/\ (last'.op = "delete_project" /\ last'.err = NoErr)
          => LET project_id == last'.args[1]
                 run_ids == {r.id : r \in {x \in db.runs :
                                             x.project_id = project_id}}
             IN /\ db'.projects = {q \in db.projects : q.id # project_id}
                /\ db'.runs = {r \in db.runs : r.project_id # project_id}
                /\ db'.custom_views =
                      {v \in db.custom_views : v.project_id # project_id}
                /\ \A t \in {"metrics", "configs", "files"} :
                      db'[t] = db[t] \ RowsOfRuns(db, t, run_ids)
       /\ (last'.op = "delete_run" /\ last'.err = NoErr)
          => LET run_id == last'.args[1] IN
                /\ db'.projects = db.projects
                /\ db'.custom_views = db.custom_views
                /\ db'.runs = {r \in db.runs : r.id # run_id}
                /\ \A t \in {"metrics", "configs", "files"} :
                      db'[t] = db[t] \ RowsOfRuns(db, t, {run_id})]_vars

\* project 1 was deleted with its run, view, metric, config and file (their
\* ids were handed out and are gone) while project 2 keeps a run with a
\* metric
C15_Witness ==
    /\ last.op = "delete_project" /\ last.err = NoErr /\ last.args[1] = 1
    /\ \A t \in {"runs", "metrics", "configs", "files", "custom_views"} :
          db.seq[t] > 1 /\ ~\E x \in db[t] : x.id = 1
    /\ \E r \in db.runs :
          /\ r.project_id = 2
          /\ \E m \in db.metrics : m.run_id = r.id
    /\ \E q \in db.projects : q.id = 2

\* C16: in every reachable state, the project_id of every row of runs is the
\* id of a row of projects.
C16_RunsHaveProject ==
    \A r \in db.runs : \E q \in db.projects : q.id = r.project_id

\* C17: in every reachable state, also when create_run calls interleave,
\* no two rows of projects have the same name, no two rows of runs the same
\* (project_id, run_id) and no two rows of configs the same (run_id, key).
C17_Unique ==
    /\ \A a, b \in db.projects : a.name = b.name => a = b
    /\ \A a, b \in db.runs :
          (a.project_id = b.project_id /\ a.run_id = b.run_id) => a = b
    /\ \A a, b \in db.configs :
          (a.run_id = b.run_id /\ a.key = b.key) => a = b

\* two calls for the same project and run name both found no project; one
\* created the project, the run and its config, the other failed on the
\* UNIQUE constraint
C17_Witness ==
    /\ Len(procs) >= 2
    /\ procs[1].project_name = procs[2].project_name
    /\ procs[1].run_name = Some("r1") /\ procs[2].run_name = Some("r1")
    /\ procs[1].pc = "done" /\ procs[2].pc = "failed"
    /\ procs[2].err = "IntegrityError"
    /\ Get(procs[1].snapshot).projects # {}
    /\ Get(procs[2].snapshot).projects = {}
    /\ Cardinality(db.projects) = 1 /\ Cardinality(db.runs) = 1
    /\ db.configs # {}

\* C18: in S3 mode, when the upload made by finish fails, finish raises.
C18_UploadFailurePropagates ==
    [][(/\ last'.op \in {"finish", "Run.finish"}
        /\ storage_type = "s3"
        /\ sync'.upload \notin {"none", "ok"})
       => last'.err # NoErr]_vars

\* the number of rows of each table of a store file
RowCounts(file) == [t \in TableNames |-> Len(Get(file)[t])]

\* C19: when the migration returns True, each of the seven tables has as
\* many rows in the destination as in the source it was given, and the
\* source file is at the .old path with its contents, not deleted.
C19_SuccessKeepsSource ==
    (last.op = "migrate" /\ fs.result = "true")
    => /\ ~IsNone(fs.dest)
       /\ RowCounts(fs.dest) = RowCounts(fs.before.source)
       /\ fs.old = fs.before.source
       /\ ~IsNone(fs.old)

\* a populated source was migrated into a path with no file
C19_Witness ==
    /\ last.op = "migrate" /\ fs.result = "true"
    /\ IsNone(fs.before.dest)
    /\ \A t \in TableNames : Get(fs.dest)[t] = <<1, 2>>
    /\ IsNone(fs.source)

\* the copy went through and the counts of some table differ
VerificationFailed ==
    /\ ~IsNone(fs.before.source)
    /\ LET dest == Get(create_duckdb_schema(fs.before.dest))
           copied == copy_tables(Get(fs.before.source), dest, 1)
       IN /\ copied.err = NoErr
          /\ \E t \in TableNames :
                Len(copied.dest[t]) # Len(Get(fs.before.source)[t])

\* C20: when the verification after the copy finds a table whose row count
\* in the destination differs from the source, the migration deletes the
\* destination file, returns False and leaves the source file where it was.
C20_MismatchRollsBack ==
    [][(last'.op = "migrate" /\ VerificationFailed')
       => /\ fs'.result = "false"
          /\ IsNone(fs'.dest)
          /\ fs'.source = fs.source /\ ~IsNone(fs'.source)
          /\ fs'.old = fs.old]_vars

\* the destination file had a row the source has not: after the copy the
\* table has three rows against two
C20_Witness ==
    /\ last.op = "migrate" /\ VerificationFailed
    /\ fs.result = "false"
    /\ \E t \in TableNames : /\ Get(fs.before.dest)[t] = <<3>>
                              /\ Get(fs.before.source)[t] = <<1, 2>>
    /\ IsNone(fs.dest) /\ ~IsNone(fs.source)

\* no row is twice in a table of the store file
NoDuplicates(file) ==
    \A t \in TableNames :
       \A i, j \in DOMAIN Get(file)[t] :
          Get(file)[t][i] = Get(file)[t][j] => i = j

\* C21: a run of the migration made after an earlier run for the same paths
\* leaves the rows of every table of the destination the earlier run left
\* as they were (it is rejected, or it copies nothing), and when the earlier
\* run left no destination it leaves none or one with no row twice; no
\* table of the destination ever has a row twice.
C21_SecondRunNoDuplicates ==
    [][(last'.op = "migrate" /\ fs.n >= 1)
       => /\ ~IsNone(fs.dest) => fs'.dest = fs.dest
          /\ ~IsNone(fs'.dest) => NoDuplicates(fs'.dest)
          /\ (fs'.result = "true" /\ fs.result = "true")
             => RowCounts(fs'.dest) = RowCounts(fs'.old)]_vars

\* the first run succeeded, the source file was put back and the second
\* run was rejected on the primary keys, the destination keeping its rows
C21_Witness ==
    /\ last.op = "migrate" /\ fs.n = 2
    /\ fs.result = "raised"
    /\ IsNone(fs.before.dest) = FALSE
    /\ fs.dest = fs.before.dest
    /\ \A t \in TableNames : Get(fs.dest)[t] = <<1, 2>>
    /\ ~IsNone(fs.source) /\ fs.source = fs.backup

\* the runs of store d in the project called project
RunsOfProject(d, project) ==
    {r \in d.runs : \E q \in d.projects :
                       q.name = project /\ r.project_id = q.id}

\* C22: create_run with no run name takes the identity run-(N+1), N being
\* the number of runs of the project, and treats it as a given name: when
\* no run of the project has it, "must" raises and "never" and "allow" add
\* one run with it; when a run has it, "never" raises and "allow" and
\* "must" return that run, set to running.
C22_AutoName ==
    [][(Called("create_run") /\ IsNone(last'.args[2]))
       => LET project == last'.args[1]
              resume == last'.args[4]
              N == Cardinality(RunsOfProject(db, project))
              identity == "run-" \o IntStr(N + 1)
              taken == {r \in RunsOfProject(db, project) : r.run_id = identity}
          IN IF taken = {}
             THEN IF resume = "must"
                  THEN last'.err = "ValueError" /\ db'.runs = db.runs
                  ELSE /\ last'.err = NoErr
                       /\ \E n \in db'.runs :
                             /\ db'.runs = db.runs \cup {n} /\ n \notin db.runs
                             /\ n.run_id = identity /\ n.state = "running"
                             /\ n \in RunsOfProject(db', project)
                             /\ last'.ret = n.id
             ELSE IF resume = "never"
                  THEN last'.err = "ValueError" /\ db'.runs = db.runs
                  ELSE /\ last'.err = NoErr
                       /\ \E e \in taken :
                             /\ last'.ret = e.id
                             /\ db'.runs = (db.runs \ {e}) \cup
                                            {[e EXCEPT !.state = "running"]}]_vars

\* the project had one run, named run-2 by its creator and completed; a
\* call with no name and "allow" took the identity run-2 and resumed it
C22_Witness ==
    /\ last.op = "create_run" /\ IsNone(last.args[2])
    /\ last.args[4] = "allow" /\ last.err = NoErr
    /\ RunsOfProject(db, last.args[1])
         = {r \in db.runs : r.id = last.ret /\ r.run_id = "run-2"
                              /\ r.state = "running"}
    /\ RunsOfProject(db, last.args[1]) # {}
    /\ \E r \in db.runs : r.state = "completed"

\* the rows of metric_path of run_id with the step and, under decode, the
\* value of item
RowsDecodingTo(d, run_id, metric_path, item, first_column) ==
    {m \in d.metrics :
        /\ m.run_id = run_id /\ m.attribute_path = metric_path
        /\ m.step = item.step
        /\ item.value = IF first_column THEN MetricValue(m)
                        ELSE MetricValueByType(m)}

\* C23: the row written for a value of type bool, int, float or string
\* decodes to that value under both decoders, the one taking the first
\* column that is not None and the one taking the column attribute_type
\* names; so every value either endpoint returns is the value the other
\* decoder reads from the row.
C23_DecodersAgree ==
    [][/\ Called("Run.log")
          => LET metrics == last'.args[1] IN
             \A j \in 1..Len(metrics) :
                \E m \in db'.metrics \ db.metrics :
                   /\ m.attribute_path = metrics[j][1]
                   /\ MetricValue(m) = metrics[j][2]
                   /\ MetricValueByType(m) = metrics[j][2]
       /\ (Called("mcp_get_metric_values") /\ last'.err = NoErr)
          => \A k \in DOMAIN resp'.data :
                RowsDecodingTo(db, last'.args[1], last'.args[2],
                               resp'.data[k], TRUE) # {}
       /\ (Called("get_metric_values") /\ last'.err = NoErr)
          => \A k \in DOMAIN resp'.data :
                RowsDecodingTo(db, last'.args[1], last'.args[2],
                               resp'.data[k], FALSE) # {}]_vars

\* False, 0 and the empty string were logged and the tool endpoint returned
\* the three of them
C23_Witness ==
    /\ last.op = "mcp_get_metric_values" /\ last.err = NoErr
    /\ Len(resp.data) = 3
    /\ {resp.data[k].value : k \in DOMAIN resp.data}
         = {PyBool(FALSE), PyInt(0), PyStr("")}

\* C24: a create_run call that raises leaves the projects, runs and configs
\* tables as they were before the call.
C24_CreateRunAtomic ==
    [][(Called("create_run") /\ last'.err # NoErr)
       => /\ db'.projects = db.projects
          /\ db'.runs = db.runs
          /\ db'.configs = db.configs]_vars

\* C25: a bulk_log request that reports failure leaves the projects, runs,
\* metrics and configs tables as they were before the request.
C25_BulkLogAtomic ==
    [][(Called("bulk_log") /\ last'.err # NoErr)
       => /\ db'.projects = db.projects
          /\ db'.runs = db.runs
          /\ db'.metrics = db.metrics
          /\ db'.configs = db.configs]_vars

\* the step just taken ended the run of a handle that has a temp file
EndedInS3Mode ==
    /\ last'.op \in {"finish", "Run.finish", "__exit__"}
    /\ storage_type = "s3"
    /\ last'.h \in DOMAIN handles
    /\ handles[last'.h].temp_db_path # 0

\* C26: in S3 mode, once finish or the exit of the scope has ended a run,
\* the temp copy of the store of its handle is gone, whether the upload
\* worked, failed or was not tried.
C26_TempRemoved ==
    [][EndedInS3Mode => ~tmp'[handles[last'.h].temp_db_path].exists]_vars

\* C27: in S3 mode, an init whose download fails otherwise than with
\* not-found raises and creates no run.
C27_DownloadFailureSurfaces ==
    [][(Called("init") /\ storage_type = "s3"
        /\ sync'.download \notin {"none", "ok", "404"})
       => /\ last'.err # NoErr
          /\ handles' = handles
          /\ current_run' = current_run]_vars

\* C28: in S3 mode, the store a successful finish uploads has every metric
\* row logged through the handle it finishes.
C28_UploadHasMetrics ==
    [][(EndedInS3Mode /\ sync'.upload = "ok")
       => /\ ~IsNone(s3_object')
          /\ \A i \in DOMAIN calls :
                calls[i].h = last'.h
                => \A j \in DOMAIN calls[i].metrics :
                      \E m \in Get(s3_object').metrics :
                         /\ m.attribute_path = calls[i].metrics[j][1]
                         /\ \E r \in Get(s3_object').runs :
                               /\ r.id = m.run_id
                               /\ r.id = handles[last'.h].run_id]_vars

\* the object in the bucket has the run of process i with the rows it logged
InRemote(i) ==
    /\ ~IsNone(s3_object)
    /\ \E r \in Get(s3_object).runs :
          /\ Some(r.run_id) = procs[i].name
          /\ \E q \in Get(s3_object).projects :
                q.id = r.project_id /\ q.name = "p"
          /\ Cardinality({m \in Get(s3_object).metrics : m.run_id = r.id})
               = procs[i].step_counter

\* both processes have finished and both uploads were made
BothUploaded ==
    /\ Len(procs) = 2
    /\ \A i \in DOMAIN procs : procs[i].pc = "done" /\ procs[i].upload = "ok"

\* C29 as claimed: once both processes have finished successfully the object
\* holds the runs and metrics of both.
C29_RemoteHasBoth ==
    BothUploaded => \A i \in DOMAIN procs : InRemote(i)

\* C29: once both processes have finished and uploaded, the object holds
\* the run and metrics of the process that uploaded last, and those of the
\* other process exactly when the last one had fetched the object after the
\* upload of the other.
C29_RemoteHasLast ==
    BothUploaded
    => \A i, j \in DOMAIN procs :
          procs[i].upload_no > procs[j].upload_no
          => /\ InRemote(i)
             /\ InRemote(j) <=> j \in procs[i].seen

\* process 2 fetched the object process 1 had uploaded, and the object has
\* both runs, each with two metric rows
C29_Witness ==
    /\ BothUploaded
    /\ procs[2].upload_no = 2 /\ procs[2].seen = {1}
    /\ procs[1].step_counter = 2 /\ procs[2].step_counter = 2
    /\ InRemote(1) /\ InRemote(2)

\* C30 as claimed: whenever the facade has a current run, the stored state
\* of that run is running; so after a run scope exits, normally or with an
\* error, the facade has no current run.
C30_CurrentRunIsRunning ==
    current_run # 0
    => \E r \in db.runs :
          r.id = handles[current_run].run_id /\ r.state = "running"

====
